---------------------------- MODULE Spec2Model ----------------------------
(***************************************************************************)
(* SmartNoteParser: the structural extractor (parser.py) and the text      *)
(* analyzer (analyzer.py) as a state machine.                              *)
(*                                                                         *)
(* A text is a sequence of one-character strings.  Every regular           *)
(* expression of the source is modelled by the matches Python's re module  *)
(* finds for it: leftmost, greedy, with backtracking, non-overlapping.     *)
(***************************************************************************)
EXTENDS Integers, Sequences, FiniteSets, TLC

VARIABLES
    content,   \* the text of the note (what f.read() returned / the argument)
    path,      \* the file the text lives in: [kind, suffix]
    args,      \* the keyword arguments of the analyzer calls
    parsed_data, \* the structural record the caller holds ({} before a parse)
    op,        \* the last operation that ran ("init" before any)
    result,    \* what that operation returned, or the error it raised
    DEFAULT_CONFIG, \* Config.DEFAULT_CONFIG: the nested dicts of the class
    configs,   \* the Config instances made so far: [config, config_path]
    last_processed, \* NoteFileHandler.last_processed: file path -> reading
    clock,     \* the last reading of time.time(), in half seconds
    event,     \* the event the handler was last given
    delivered, \* the paths of the file events delivered so far
    calls,     \* the invocations of callback_func so far: [file_path, at]
    directory, \* the entries under the directory of a batch run: path -> entry
    options,   \* the options of the batch run: recursive, summary, analyze, output
    batch_pc,  \* where parse_notes is: "start", "loop" or "done"
    files_to_process, \* the list get_files_from_directory returned
    attempted, \* the files process_single_file was called for: [file_path, raised]
    results,   \* the results list of parse_notes
    handed     \* the list export_batch_results or display_batch_summary got

vars == <<content, path, args, parsed_data, op, result, DEFAULT_CONFIG, configs,
          last_processed, clock, event, delivered, calls,
          directory, options, batch_pc, files_to_process, attempted, results, handed>>

\* the state of a batch run
batch == <<directory, options, batch_pc, files_to_process, attempted, results, handed>>

\* the state of the watcher
watcher == <<last_processed, clock, event, delivered, calls>>

\* the state outside the parser and the analyzer
elsewhere == <<DEFAULT_CONFIG, configs, watcher, batch>>

---------------------------------------------------------------------------
(* Characters and character classes (Python's re: \w, \s, ., [a-zA-Z]).    *)

LowerLetters == <<"a","b","c","d","e","f","g","h","i","j","k","l","m",
                  "n","o","p","q","r","s","t","u","v","w","x","y","z">>

UpperLetters == <<"A","B","C","D","E","F","G","H","I","J","K","L","M",
                  "N","O","P","Q","R","S","T","U","V","W","X","Y","Z">>

Digits == {"0","1","2","3","4","5","6","7","8","9"}

IsLower(c) == \E i \in 1..26 : LowerLetters[i] = c

IsUpper(c) == \E i \in 1..26 : UpperLetters[i] = c

\* [a-zA-Z]
IsAlpha(c) == IsLower(c) \/ IsUpper(c)

\* \w
IsWordChar(c) == IsAlpha(c) \/ c \in Digits \/ c = "_"

\* \s
IsSpace(c) == c \in {" ", "\t", "\n", "\r"}

\* . (without re.DOTALL): anything but a newline
IsDot(c) == c # "\n"

\* str.lower() on one character
LowerChar(c) ==
    IF IsUpper(c)
    THEN LowerLetters[CHOOSE i \in 1..26 : UpperLetters[i] = c]
    ELSE c

\* str.lower()
Lower(s) == [i \in 1..Len(s) |-> LowerChar(s[i])]

\* s[i:j] with 1-based inclusive positions; empty when j < i
Slice(s, i, j) == IF j < i THEN <<>> ELSE SubSeq(s, i, j)

\* the length of the longest run of characters of class IsWordChar from i
RECURSIVE WordRun(_, _)
WordRun(s, i) ==
    IF i > Len(s) \/ ~IsWordChar(s[i]) THEN 0 ELSE 1 + WordRun(s, i + 1)

\* the length of the longest run of whitespace from i
RECURSIVE SpaceRun(_, _)
SpaceRun(s, i) ==
    IF i > Len(s) \/ ~IsSpace(s[i]) THEN 0 ELSE 1 + SpaceRun(s, i + 1)

\* the length of the longest run of non-newline characters from i
RECURSIVE DotRun(_, _)
DotRun(s, i) ==
    IF i > Len(s) \/ ~IsDot(s[i]) THEN 0 ELSE 1 + DotRun(s, i + 1)

\* the length of the longest run of "#" from i
RECURSIVE HashRun(_, _)
HashRun(s, i) ==
    IF i > Len(s) \/ s[i] # "#" THEN 0 ELSE 1 + HashRun(s, i + 1)

\* the length of the longest run of [a-zA-Z] from i
RECURSIVE AlphaRun(_, _)
AlphaRun(s, i) ==
    IF i > Len(s) \/ ~IsAlpha(s[i]) THEN 0 ELSE 1 + AlphaRun(s, i + 1)

\* ^ under re.MULTILINE: the start of the text or just after a newline
LineStart(s, i) == i = 1 \/ (i >= 2 /\ i <= Len(s) + 1 /\ s[i - 1] = "\n")

\* the literal lit occurs in s at position i
LitAt(s, i, lit) ==
    /\ i + Len(lit) - 1 <= Len(s)
    /\ \A k \in 1..Len(lit) : s[i + k - 1] = lit[k]

\* the literal lit occurs in s at position i, ignoring case (re.IGNORECASE)
LitAtNoCase(s, i, lit) ==
    /\ i + Len(lit) - 1 <= Len(s)
    /\ \A k \in 1..Len(lit) : LowerChar(s[i + k - 1]) = LowerChar(lit[k])

\* str.strip()
RECURSIVE LStrip(_)
LStrip(s) == IF s # <<>> /\ IsSpace(Head(s)) THEN LStrip(Tail(s)) ELSE s

RECURSIVE RStrip(_)
RStrip(s) ==
    IF s # <<>> /\ IsSpace(s[Len(s)]) THEN RStrip(SubSeq(s, 1, Len(s) - 1)) ELSE s

Strip(s) == RStrip(LStrip(s))

\* a failed match
NoMatch == [ok |-> FALSE, end |-> 0, groups |-> <<>>]

\* a match ending just before position end, with its capture groups
Match(e, g) == [ok |-> TRUE, end |-> e, groups |-> g]

\* (.+) at position b, where n non-newline characters follow: the rest of
\* the line
RestOfLine(s, b, n) ==
    IF n >= 1 THEN Match(b + n, <<Slice(s, b, b + n - 1)>>) ELSE NoMatch

\* the regex engine giving back whitespace: the largest m in least..w such
\* that a non-newline character stands at p + m, or -1
RECURSIVE GiveBack(_, _, _, _)
GiveBack(s, p, least, w) ==
    IF w < least THEN -1
    ELSE IF p + w <= Len(s) /\ IsDot(s[p + w]) THEN w
    ELSE GiveBack(s, p, least, w - 1)

\* (.+) after m whitespace characters taken at p (m = -1: no way to match)
RestAfter(s, p, m) ==
    IF m < 0 THEN NoMatch ELSE RestOfLine(s, p + m, DotRun(s, p + m))

\* "\s*(.+)" (least = 0) or "\s+(.+)" (least = 1) at position p: the regex
\* engine takes the whole whitespace run first and gives characters back
\* until a non-newline character follows; (.+) then runs to the end of that
\* line.  Group: the text of (.+).
SpaceThenRest(s, p, least) ==
    RestAfter(s, p, GiveBack(s, p, least, SpaceRun(s, p)))

---------------------------------------------------------------------------
(* The regular expressions of parser.py, each as the match Python finds    *)
(* when it tries the pattern at position i of s.                           *)

\* the most "#" the header pattern takes: #{1,6}
MaxHeaderLevel == 6

\* r'^(#{1,6})\s+(.+)$' tried with k "#" (the most first, then fewer), then
\* whitespace (which includes newlines), then the rest of a line.
\* Groups: the "#" run and the title.
RECURSIVE HeaderWith(_, _, _)
RECURSIVE HeaderTail(_, _, _, _)
HeaderWith(s, i, k) ==
    IF k < 1 THEN NoMatch ELSE HeaderTail(s, i, k, SpaceThenRest(s, i + k, 1))

HeaderTail(s, i, k, m) ==
    IF m.ok THEN Match(m.end, <<Slice(s, i, i + k - 1), m.groups[1]>>)
    ELSE HeaderWith(s, i, k - 1)

\* the smaller of two numbers
Min(a, b) == IF a < b THEN a ELSE b

\* r'^(#{1,6})\s+(.+)$' with re.MULTILINE
HeaderAt(s, i) ==
    IF LineStart(s, i)
    THEN HeaderWith(s, i, Min(HashRun(s, i), MaxHeaderLevel))
    ELSE NoMatch

\* one lookbehind (?<!^#...#) with k "#": does "^" followed by k "#" end
\* just before position i
MarkerBehind(s, i, k) ==
    /\ i - k >= 1
    /\ LineStart(s, i - k)
    /\ \A j \in (i - k)..(i - 1) : s[j] = "#"

\* how many elements of tags and of keywords generate_summary lists: [:5]
MaxListed == 5

\* the number of "#" in the longest lookbehind of the hashtag pattern:
\* (?<!^) (?<!^#) ... (?<!^######)
MaxLookbehind == 6

\* the sign at position i followed by n word characters: (\w+) is the run
SignThenWord(s, i, n) ==
    IF n >= 1 THEN Match(i + 1 + n, <<Slice(s, i + 1, i + n)>>) ELSE NoMatch

\* r'(?<!^)(?<!^#)(?<!^##)(?<!^###)(?<!^####)(?<!^#####)(?<!^######)#(\w+)'
\* with re.MULTILINE
MdHashtagAt(s, i) ==
    IF s[i] = "#" /\ \A k \in 0..MaxLookbehind : ~MarkerBehind(s, i, k)
    THEN SignThenWord(s, i, WordRun(s, i + 1))
    ELSE NoMatch

\* r'#(\w+)' and r'@(\w+)': the sign, then the longest run of \w
SignWordAt(s, i, sign) ==
    IF s[i] = sign THEN SignThenWord(s, i, WordRun(s, i + 1)) ELSE NoMatch

\* the length of the longest run of characters other than "]" from i
RECURSIVE NotCloseRun(_, _)
NotCloseRun(s, i) ==
    IF i > Len(s) \/ s[i] = "]" THEN 0 ELSE 1 + NotCloseRun(s, i + 1)

\* "[" at position i followed by n characters that are not "]": a match
\* when n >= 1 and a "]" comes next
Bracketed(s, i, n) ==
    IF n >= 1 /\ i + 1 + n <= Len(s)
    THEN Match(i + 2 + n, <<Slice(s, i + 1, i + n)>>)
    ELSE NoMatch

\* r'\[([^\]]+)\]': "[", one or more characters that are not "]", then "]"
BracketAt(s, i) ==
    IF s[i] = "[" THEN Bracketed(s, i, NotCloseRun(s, i + 1)) ELSE NoMatch

\* r'<lit>(.+)' for a literal prefix: the prefix, then the rest of the line
PrefixRestAt(s, i, lit) ==
    IF LitAt(s, i, lit)
    THEN RestOfLine(s, i + Len(lit), DotRun(s, i + Len(lit)))
    ELSE NoMatch

\* r'TODO:?\s*(.+)' once "TODO:" matched up to position b - 1: m is the
\* match of \s*(.+) after the colon; when there is none the colon is given
\* back and (.+) starts at it
TodoAfterColon(s, b, m) == IF m.ok THEN m ELSE SpaceThenRest(s, b, 0)

\* r'TODO:?\s*(.+)' with re.IGNORECASE
TodoAt(s, i) ==
    IF ~LitAtNoCase(s, i, <<"T", "O", "D", "O">>) THEN NoMatch
    ELSE IF i + 4 <= Len(s) /\ s[i + 4] = ":"
         THEN TodoAfterColon(s, i + 4, SpaceThenRest(s, i + 5, 0))
    ELSE SpaceThenRest(s, i + 4, 0)

\* the patterns by name, tried at a position i in 1..Len(s)
MatchAt(re, s, i) ==
    CASE re = "header"     -> HeaderAt(s, i)
      [] re = "md_hashtag" -> MdHashtagAt(s, i)
      [] re = "hashtag"    -> SignWordAt(s, i, "#")
      [] re = "mention"    -> SignWordAt(s, i, "@")
      [] re = "bracket"    -> BracketAt(s, i)
      [] re = "dash_open"  -> PrefixRestAt(s, i, <<"-", " ", "[", " ", "]", " ">>)
      [] re = "dash_done"  -> PrefixRestAt(s, i, <<"-", " ", "[", "x", "]", " ">>)
      [] re = "star_open"  -> PrefixRestAt(s, i, <<"*", " ", "[", " ", "]", " ">>)
      [] re = "todo"       -> TodoAt(s, i)

\* the matches re.findall collects from position i on: leftmost first, the
\* search resuming where the last match ended (m is the attempt at i)
RECURSIVE MatchesFrom(_, _, _)
RECURSIVE MatchesAfter(_, _, _, _)
MatchesFrom(re, s, i) ==
    IF i > Len(s) THEN <<>> ELSE MatchesAfter(re, s, i, MatchAt(re, s, i))

MatchesAfter(re, s, i, m) ==
    IF m.ok THEN <<m.groups>> \o MatchesFrom(re, s, m.end)
    ELSE MatchesFrom(re, s, i + 1)

\* the first group of every match
FirstGroups(ms) == [k \in 1..Len(ms) |-> ms[k][1]]

\* re.findall for a pattern with one group: the list of the group's texts
FindAll(re, s) == FirstGroups(MatchesFrom(re, s, 1))

\* the set of a list's elements: set(list)
SetOf(l) == {l[k] : k \in 1..Len(l)}

\* list(set): the elements in an order the program does not decide
ListsOf(S) ==
    {l \in [1..Cardinality(S) -> S] : \A a, b \in 1..Cardinality(S) : a # b => l[a] # l[b]}

---------------------------------------------------------------------------
(* parser.py: NoteParser                                                   *)

\* _detect_format: the format of a file by its extension (lower-cased)
_detect_format(extension) ==
    IF Lower(extension) \in {<<".", "m", "d">>,
                             <<".", "m", "a", "r", "k", "d", "o", "w", "n">>}
    THEN "markdown"
    ELSE "text"

\* (len(h[0]), h[1].strip()) for every match h of the header pattern
HeadersOf(ms) ==
    [k \in 1..Len(ms) |-> [level |-> Len(ms[k][1]), title |-> Strip(ms[k][2])]]

\* the headers of _parse_markdown
MdHeaders(c) == HeadersOf(MatchesFrom("header", c, 1))

\* the todos list of _parse_markdown before set(): the four findall results
\* appended in the order of the code
MdTodoMatches(c) ==
    FindAll("dash_open", c) \o FindAll("dash_done", c)
        \o FindAll("star_open", c) \o FindAll("todo", c)

\* _parse_markdown with the bracket pattern forgotten: the keywords are the
\* mentions alone
_parse_markdown_mentions_only(c) ==
    { [format   |-> "markdown",
       headers  |-> MdHeaders(c),
       tags     |-> SetOf(FindAll("md_hashtag", c)),
       todos    |-> l,
       keywords |-> SetOf(FindAll("mention", c)),
       content  |-> c] : l \in ListsOf(SetOf(MdTodoMatches(c))) }

\* _parse_markdown: the records it may return (list(set(todos)) leaves the
\* order of the todos to the set's iteration order)
_parse_markdown(c) ==
    { [format   |-> "markdown",
       headers  |-> MdHeaders(c),
       tags     |-> SetOf(FindAll("md_hashtag", c)),
       todos    |-> l,
       keywords |-> SetOf(FindAll("mention", c) \o FindAll("bracket", c)),
       content  |-> c] : l \in ListsOf(SetOf(MdTodoMatches(c))) }

\* the todos of _parse_text: the findall result as it is
TextTodos(c) == FindAll("todo", c)

\* _parse_text: the record it returns
_parse_text(c) ==
    [format  |-> "text",
     tags    |-> SetOf(FindAll("hashtag", c)),
     todos   |-> TextTodos(c),
     content |-> c]

\* an operation that raised instead of returning
Raised(e) == [raised |-> e]

DidRaise(r) == "raised" \in DOMAIN r

\* parse_file on the file p holding text c: the outcomes (a record returned
\* or an error raised)
parse_file(p, c) ==
    IF p.kind = "missing" THEN {Raised("FileNotFoundError")}
    ELSE IF p.kind # "file" THEN {Raised("ValueError")}
    ELSE IF Strip(c) = <<>> THEN {Raised("ValueError")}
    ELSE IF _detect_format(p.suffix) = "markdown" THEN _parse_markdown(c)
    ELSE {_parse_text(c)}

---------------------------------------------------------------------------
(* analyzer.py: TextAnalyzer                                               *)

\* TextAnalyzer.STOP_WORDS
STOP_WORDS ==
    {<<"t","h","e">>, <<"a">>, <<"a","n">>, <<"a","n","d">>, <<"o","r">>, <<"b","u","t">>,
     <<"i","n">>, <<"o","n">>, <<"a","t">>, <<"t","o">>, <<"f","o","r">>, <<"o","f">>,
     <<"w","i","t","h">>, <<"b","y">>, <<"a","s">>, <<"i","s">>, <<"a","r","e">>, <<"w","a","s">>,
     <<"w","e","r","e">>, <<"b","e">>, <<"b","e","e","n">>, <<"h","a","v","e">>, <<"h","a","s">>,
     <<"h","a","d">>, <<"d","o">>, <<"d","o","e","s">>, <<"d","i","d">>, <<"w","i","l","l">>,
     <<"w","o","u","l","d">>, <<"c","o","u","l","d">>, <<"s","h","o","u","l","d">>, <<"m","a","y">>,
     <<"m","i","g","h","t">>, <<"c","a","n">>, <<"m","u","s","t">>, <<"t","h","i","s">>,
     <<"t","h","a","t">>, <<"t","h","e","s","e">>, <<"t","h","o","s","e">>, <<"i">>, <<"y","o","u">>,
     <<"h","e">>, <<"s","h","e">>, <<"i","t">>, <<"w","e">>, <<"t","h","e","y">>, <<"m","e">>,
     <<"h","i","m">>, <<"h","e","r">>, <<"u","s">>, <<"t","h","e","m">>, <<"m","y">>,
     <<"y","o","u","r">>, <<"h","i","s">>, <<"h","e","r">>, <<"i","t","s">>, <<"o","u","r">>,
     <<"t","h","e","i","r">>, <<"m","y","s","e","l","f">>, <<"y","o","u","r","s","e","l","f">>,
     <<"h","i","m","s","e","l","f">>, <<"h","e","r","s","e","l","f">>, <<"i","t","s","e","l","f">>,
     <<"o","u","r","s","e","l","v","e","s">>, <<"y","o","u","r","s","e","l","v","e","s">>,
     <<"t","h","e","m","s","e","l","v","e","s">>}

\* the lexicons of analyze_sentiment_indicators
positive_words ==
    {<<"g","o","o","d">>, <<"g","r","e","a","t">>, <<"e","x","c","e","l","l","e","n","t">>,
     <<"a","m","a","z","i","n","g">>, <<"w","o","n","d","e","r","f","u","l">>,
     <<"f","a","n","t","a","s","t","i","c">>, <<"a","w","e","s","o","m","e">>, <<"l","o","v","e">>,
     <<"l","i","k","e">>, <<"e","n","j","o","y">>, <<"h","a","p","p","y">>,
     <<"p","l","e","a","s","e","d">>, <<"s","a","t","i","s","f","i","e","d">>,
     <<"e","x","c","i","t","e","d">>, <<"s","u","c","c","e","s","s">>,
     <<"s","u","c","c","e","s","s","f","u","l">>, <<"a","c","h","i","e","v","e","m","e","n","t">>,
     <<"a","c","c","o","m","p","l","i","s","h">>, <<"c","o","m","p","l","e","t","e">>,
     <<"d","o","n","e">>}

\* negative lexicon
negative_words ==
    {<<"b","a","d">>, <<"t","e","r","r","i","b","l","e">>, <<"a","w","f","u","l">>,
     <<"h","o","r","r","i","b","l","e">>, <<"h","a","t","e">>, <<"d","i","s","l","i","k","e">>,
     <<"a","n","g","r","y">>, <<"u","p","s","e","t">>, <<"f","r","u","s","t","r","a","t","e","d">>,
     <<"a","n","n","o","y","e","d">>, <<"d","i","s","a","p","p","o","i","n","t","e","d">>,
     <<"f","a","i","l">>, <<"f","a","i","l","u","r","e">>, <<"p","r","o","b","l","e","m">>,
     <<"i","s","s","u","e">>, <<"b","u","g">>, <<"e","r","r","o","r">>, <<"b","r","o","k","e","n">>,
     <<"d","i","f","f","i","c","u","l","t">>, <<"h","a","r","d">>,
     <<"c","h","a","l","l","e","n","g","i","n","g">>}

\* urgent lexicon
urgent_words ==
    {<<"u","r","g","e","n","t">>, <<"a","s","a","p">>,
     <<"i","m","m","e","d","i","a","t","e","l","y">>, <<"c","r","i","t","i","c","a","l">>,
     <<"i","m","p","o","r","t","a","n","t">>, <<"p","r","i","o","r","i","t","y">>,
     <<"d","e","a","d","l","i","n","e">>, <<"d","u","e">>, <<"e","m","e","r","g","e","n","c","y">>,
     <<"f","i","x">>, <<"r","e","s","o","l","v","e">>, <<"a","d","d","r","e","s","s">>}

\* r'\b\w+\b': the maximal runs of word characters from position i on
RECURSIVE WordsFrom(_, _)
WordsFrom(s, i) ==
    IF i > Len(s) THEN <<>>
    ELSE LET n == WordRun(s, i)
         IN  IF n >= 1
             THEN <<Slice(s, i, i + n - 1)>> \o WordsFrom(s, i + n)
             ELSE WordsFrom(s, i + 1)

\* r'\b[a-zA-Z]{m,}\b': a run of at least m letters with a word boundary on
\* both sides (a digit or "_" next to the run is no boundary)
RECURSIVE AlphaWordsFrom(_, _, _)
AlphaWordsFrom(s, i, m) ==
    IF i > Len(s) THEN <<>>
    ELSE LET n == AlphaRun(s, i)
         IN  IF /\ i = 1 \/ ~IsWordChar(s[i - 1])
                /\ n >= m
                /\ i + n > Len(s) \/ ~IsWordChar(s[i + n])
             THEN <<Slice(s, i, i + n - 1)>> \o AlphaWordsFrom(s, i + n, m)
             ELSE AlphaWordsFrom(s, i + 1, m)

\* [w for w in words if keep(w)] for the two filters of the analyzer
RECURSIVE DropStopWords(_)
DropStopWords(l) ==
    IF l = <<>> THEN <<>>
    ELSE IF Head(l) \notin STOP_WORDS
         THEN <<Head(l)>> \o DropStopWords(Tail(l))
         ELSE DropStopWords(Tail(l))

\* the distinct elements of a list in the order they first occur: the keys
\* of a Counter (a dict keeps insertion order)
RECURSIVE Distinct(_)
Distinct(l) ==
    IF l = <<>> THEN <<>>
    ELSE LET d == Distinct(SubSeq(l, 1, Len(l) - 1))
         IN  IF l[Len(l)] \in SetOf(d) THEN d ELSE Append(d, l[Len(l)])

\* how often w occurs in the list l
Count(l, w) == Cardinality({k \in 1..Len(l) : l[k] = w})

\* Counter(l).items(): (element, count) pairs in first-seen order
Counter(l) ==
    LET d == Distinct(l)
    IN  [k \in 1..Len(d) |-> <<d[k], Count(l, d[k])>>]

\* the place of items[k] in sorted(items, key=count, reverse=True), which
\* is stable: larger counts first, equal counts in their order in items
Rank(items, k) ==
    1 + Cardinality({j \in 1..Len(items) :
                        \/ items[j][2] > items[k][2]
                        \/ items[j][2] = items[k][2] /\ j < k})

\* most_common without the sort: the first n items in first-seen order
most_common_unsorted(items, n) ==
    Slice(items, 1, IF n < Len(items) THEN n ELSE Len(items))

\* Counter.most_common(n) for n >= 0: the n largest counts, ties in
\* first-seen order (heapq.nlargest = sorted(..., reverse=True)[:n])
most_common(items, n) ==
    LET sorted == [p \in 1..Len(items) |->
                      items[CHOOSE k \in 1..Len(items) : Rank(items, k) = p]]
        m      == IF n < Len(items) THEN n ELSE Len(items)
    IN  Slice(sorted, 1, m)

\* the words analyze_word_frequency counts
FrequencyWords(include_stop_words, c, min_length) ==
    LET words == AlphaWordsFrom(Lower(c), 1, min_length)
    IN  IF ~include_stop_words THEN DropStopWords(words) ELSE words

\* analyze_word_frequency of an analyzer built with include_stop_words
analyze_word_frequency(include_stop_words, c, min_length, top_n) ==
    most_common(Counter(FrequencyWords(include_stop_words, c, min_length)), top_n)

\* re.sub(r'[^\w\s]', ' ', content.lower())
CleanContent(c) ==
    [i \in 1..Len(c) |->
        IF ~IsWordChar(LowerChar(c[i])) /\ ~IsSpace(LowerChar(c[i]))
        THEN " " ELSE LowerChar(c[i])]

\* the length of the longest run of non-whitespace from i
RECURSIVE NonSpaceRun(_, _)
NonSpaceRun(s, i) ==
    IF i > Len(s) \/ IsSpace(s[i]) THEN 0 ELSE 1 + NonSpaceRun(s, i + 1)

\* str.split(): the maximal runs of non-whitespace
RECURSIVE SplitFrom(_, _)
SplitFrom(s, i) ==
    IF i > Len(s) THEN <<>>
    ELSE IF IsSpace(s[i]) THEN SplitFrom(s, i + 1)
    ELSE <<Slice(s, i, i + NonSpaceRun(s, i) - 1)>>
             \o SplitFrom(s, i + NonSpaceRun(s, i))

\* the filter of find_key_phrases with the length test left out
RECURSIVE KeepNonStopWords(_)
KeepNonStopWords(l) ==
    IF l = <<>> THEN <<>>
    ELSE IF Head(l) \notin STOP_WORDS
         THEN <<Head(l)>> \o KeepNonStopWords(Tail(l))
         ELSE KeepNonStopWords(Tail(l))

\* the filter of find_key_phrases:
\* [w for w in words if w not in STOP_WORDS and len(w) >= 3]
RECURSIVE KeepPhraseWords(_)
KeepPhraseWords(l) ==
    IF l = <<>> THEN <<>>
    ELSE IF Head(l) \notin STOP_WORDS /\ Len(Head(l)) >= 3
         THEN <<Head(l)>> \o KeepPhraseWords(Tail(l))
         ELSE KeepPhraseWords(Tail(l))

\* the filtered words of find_key_phrases
PhraseWords(c) == KeepPhraseWords(SplitFrom(CleanContent(c), 1))

\* ' '.join(l)
RECURSIVE Join(_)
Join(l) ==
    IF l = <<>> THEN <<>>
    ELSE IF Len(l) = 1 THEN l[1]
    ELSE l[1] \o <<" ">> \o Join(Tail(l))

\* the phrases of one n: for i in range(len(words) - n + 1)
NGrams(words, n) ==
    [i \in 1..(Len(words) - n + 1) |-> Join(SubSeq(words, i, i + n - 1))]

\* for n in range(n, max_words + 1): the phrases of every n, appended
RECURSIVE PhrasesFrom(_, _, _)
PhrasesFrom(words, n, max_words) ==
    IF n > max_words THEN <<>>
    ELSE NGrams(words, n) \o PhrasesFrom(words, n + 1, max_words)

\* find_key_phrases (for min_words >= 1)
find_key_phrases(c, min_words, max_words, top_n) ==
    most_common(Counter(PhrasesFrom(PhraseWords(c), min_words, max_words)), top_n)

Vowels == {"a", "e", "i", "o", "u", "y"}

\* the loop of _count_syllables from character i on: one per vowel that
\* follows a non-vowel (or starts the word)
RECURSIVE VowelGroups(_, _, _)
VowelGroups(w, i, prev_was_vowel) ==
    IF i > Len(w) THEN 0
    ELSE (IF w[i] \in Vowels /\ ~prev_was_vowel THEN 1 ELSE 0)
             + VowelGroups(w, i + 1, w[i] \in Vowels)

\* _count_syllables with the floor max(1, ...) left out
_count_syllables_unfloored(word) ==
    LET w == Lower(word)
    IN  IF Len(w) <= 3 THEN 1
        ELSE VowelGroups(w, 1, FALSE) - (IF w[Len(w)] = "e" THEN 1 ELSE 0)

\* _count_syllables
_count_syllables(word) ==
    LET w == Lower(word)
        n == VowelGroups(w, 1, FALSE) - (IF w[Len(w)] = "e" THEN 1 ELSE 0)
    IN  IF Len(w) <= 3 THEN 1
        ELSE IF n < 1 THEN 1 ELSE n

\* sum(self._count_syllables(word) for word in words)
RECURSIVE SumSyllables(_)
SumSyllables(words) ==
    IF words = <<>> THEN 0
    ELSE _count_syllables(Head(words)) + SumSyllables(Tail(words))

IsTerminator(c) == c \in {".", "!", "?"}

RECURSIVE NonTerminatorRun(_, _)
NonTerminatorRun(s, i) ==
    IF i > Len(s) \/ IsTerminator(s[i]) THEN 0 ELSE 1 + NonTerminatorRun(s, i + 1)

RECURSIVE TerminatorRun(_, _)
TerminatorRun(s, i) ==
    IF i > Len(s) \/ ~IsTerminator(s[i]) THEN 0 ELSE 1 + TerminatorRun(s, i + 1)

\* re.split(r'[.!?]+', s) from position i on: the pieces between the runs
\* of terminators, the empty ones included
RECURSIVE SplitSentences(_, _)
SplitSentences(s, i) ==
    LET j == i + NonTerminatorRun(s, i)
    IN  IF j > Len(s) THEN <<Slice(s, i, j - 1)>>
        ELSE <<Slice(s, i, j - 1)>> \o SplitSentences(s, j + TerminatorRun(s, j))

\* [s.strip() for s in sentences if s.strip()]
RECURSIVE StripNonEmpty(_)
StripNonEmpty(l) ==
    IF l = <<>> THEN <<>>
    ELSE IF Strip(Head(l)) # <<>>
         THEN <<Strip(Head(l))>> \o StripNonEmpty(Tail(l))
         ELSE StripNonEmpty(Tail(l))

\* the sentences and the words analyze_readability counts
Sentences(c) == StripNonEmpty(SplitSentences(c, 1))

ReadabilityWords(c) == WordsFrom(c, 1)

\* round(num / den, digits) for num >= 0, as an integer count of units of
\* 1/scale (scale = 10 ^ digits): the nearest one; when num / den lies
\* exactly half way the binary floating-point value decides, so both
\* neighbours are possible
Rounded(num, den, scale) ==
    LET q == (scale * num) \div den
    IN  {t \in {q, q + 1} :
            /\ 2 * t * den - 2 * scale * num <= den
            /\ 2 * scale * num - 2 * t * den <= den}

\* flesch_score before max/min, as the fraction num / den:
\* 206.835 - 1.015 * (W / S) - 84.6 * (Y / W) over the common denominator
\* 1000 * S * W (the averages enter unrounded)
FleschRaw(S, W, Y) ==
    [num |-> 206835 * S * W - 1015 * W * W - 84600 * Y * S,
     den |-> 1000 * S * W]

\* flesch_score with the clamp left out
FleschUnclamped(S, W, Y) == FleschRaw(S, W, Y)

\* flesch_score = max(0, min(100, flesch_score))
FleschClamped(S, W, Y) ==
    LET f == FleschRaw(S, W, Y)
    IN  [num |-> IF f.num < 0 THEN 0
                 ELSE IF f.num > 100 * f.den THEN 100 * f.den
                 ELSE f.num,
         den |-> f.den]

\* analyze_readability: the records it may return.  The averages are in
\* hundredths and flesch_reading_ease in tenths (round(x, 2), round(x, 1)).
analyze_readability(c) ==
    LET S == Len(Sentences(c))
        W == Len(ReadabilityWords(c))
        Y == SumSyllables(ReadabilityWords(c))
        f == FleschClamped(S, W, Y)
    IN  IF S = 0 \/ W = 0
        THEN {[sentences              |-> 0,
               words                  |-> 0,
               avg_words_per_sentence |-> 0,
               avg_syllables_per_word |-> 0]}
        ELSE {[sentences              |-> S,
               words                  |-> W,
               syllables              |-> Y,
               avg_words_per_sentence |-> a,
               avg_syllables_per_word |-> b,
               flesch_reading_ease    |-> e] :
                 a \in Rounded(W, S, 100),
                 b \in Rounded(Y, W, 100),
                 e \in Rounded(f.num, f.den, 10)}

\* len([w for w in words if w in lexicon])
CountIn(words, lexicon) == Cardinality({k \in 1..Len(words) : words[k] \in lexicon})

\* analyze_sentiment_indicators without content.lower(): the words are
\* compared in the case they are written in
analyze_sentiment_indicators_case_sensitive(c) ==
    LET words == WordsFrom(c, 1)
    IN  [positive_indicators |-> CountIn(words, positive_words),
         negative_indicators |-> CountIn(words, negative_words),
         urgent_indicators   |-> CountIn(words, urgent_words)]

\* analyze_sentiment_indicators
analyze_sentiment_indicators(c) ==
    LET words == WordsFrom(Lower(c), 1)
    IN  [positive_indicators |-> CountIn(words, positive_words),
         negative_indicators |-> CountIn(words, negative_words),
         urgent_indicators   |-> CountIn(words, urgent_words)]

\* generate_text_insights of an analyzer built with include_stop_words: the
\* records it may return
generate_text_insights(include_stop_words, c) ==
    {[top_words            |-> analyze_word_frequency(include_stop_words, c, 3, 15),
      key_phrases          |-> find_key_phrases(c, 2, 4, 8),
      readability          |-> r,
      sentiment_indicators |-> analyze_sentiment_indicators(c)] :
        r \in analyze_readability(c)}

---------------------------------------------------------------------------
(* parser.py: NoteParser.generate_summary                                  *)

\* the decimal digits of a number below 10
DigitChar(d) == <<"0", "1", "2", "3", "4", "5", "6", "7", "8", "9">>[d + 1]

\* str(n) for n >= 0, as the f-strings format a count
RECURSIVE Str(_)
Str(n) == IF n < 10 THEN <<DigitChar(n)>> ELSE Str(n \div 10) \o <<DigitChar(n % 10)>>

\* sep.join(l)
RECURSIVE JoinWith(_, _)
JoinWith(l, sep) ==
    IF l = <<>> THEN <<>>
    ELSE IF Len(l) = 1 THEN l[1]
    ELSE l[1] \o sep \o JoinWith(Tail(l), sep)

\* parsed_data['format'].upper() for the two formats
FormatUpper(format) ==
    IF format = "markdown" THEN <<"M","A","R","K","D","O","W","N">> ELSE <<"T","E","X","T">>

\* lines.append(f"Document Type: ...")
TypeLines(data) == <<<<"D","o","c","u","m","e","n","t"," ","T","y","p","e",":"," ">> \o FormatUpper(data.format)>>

\* parsed_data.get(key) is truthy, for a list and for a set: the key is
\* there and its value is not empty
TruthyList(data, key) == key \in DOMAIN data /\ Len(data[key]) > 0

TruthySet(data, key) == key \in DOMAIN data /\ data[key] # {}

\* "H<level>: <count>" for the levels that occur, in sorted order
LevelCounts(headers) ==
    LET levels == {headers[k].level : k \in 1..Len(headers)}
        sorted == CHOOSE l \in ListsOf(levels) :
                      \A j, k \in 1..Len(l) : j < k => l[j] < l[k]
    IN  [k \in 1..Len(sorted) |->
            <<"H">> \o Str(sorted[k]) \o <<":"," ">>
                \o Str(Cardinality({j \in 1..Len(headers) :
                                       headers[j].level = sorted[k]}))]

\* the structure line, when there are headers
StructureLines(data) ==
    IF TruthyList(data, "headers")
    THEN <<<<"S","t","r","u","c","t","u","r","e",":"," ">> \o JoinWith(LevelCounts(data.headers), <<","," ">>)>>
    ELSE <<>>

\* len(content.splitlines()) for the line breaks "\n", "\r" and "\r\n": a
\* break at the very end opens no further line
RECURSIVE CountLines(_, _)
CountLines(c, i) ==
    IF i > Len(c) THEN 0
    ELSE IF c[i] = "\r" /\ i < Len(c) /\ c[i + 1] = "\n" THEN 1 + CountLines(c, i + 2)
    ELSE IF c[i] \in {"\n", "\r"} THEN 1 + CountLines(c, i + 1)
    ELSE IF i = Len(c) THEN 1
    ELSE CountLines(c, i + 1)

\* the content line: the words of content.split() and the lines
ContentLines(data) ==
    LET c == IF "content" \in DOMAIN data THEN data.content ELSE <<>>
    IN  <<<<"C","o","n","t","e","n","t",":"," ">> \o Str(Len(SplitFrom(c, 1))) \o <<" ","w","o","r","d","s",","," ">>
             \o Str(CountLines(c, 1)) \o <<" ","l","i","n","e","s">>>>

\* list(a_set)[:5]: the first five elements in any order of iteration
FirstFive(S) ==
    {Slice(l, 1, IF Len(l) < MaxListed THEN Len(l) ELSE MaxListed) : l \in ListsOf(S)}

\* the tags line and the keywords line, when there are any
LabelledLines(data, key, label) ==
    IF TruthySet(data, key)
    THEN {<<label \o JoinWith(l, <<","," ">>)>> : l \in FirstFive(data[key])}
    ELSE {<<>>}

\* 'x' in str(t)
HasX(t) == \E k \in 1..Len(t) : t[k] = "x"

\* f"Tasks: {completed}/{total} completed"
TaskLine(todos) ==
    <<"T","a","s","k","s",":"," ">> \o Str(Cardinality({k \in 1..Len(todos) : HasX(todos[k])}))
        \o <<"/">> \o Str(Len(todos)) \o <<" ","c","o","m","p","l","e","t","e","d">>

\* the task line appended whether there are todos or not
TaskLines_unguarded(data) ==
    <<TaskLine(IF "todos" \in DOMAIN data THEN data.todos ELSE <<>>)>>

\* the task line, when there are todos
TaskLines(data) ==
    IF TruthyList(data, "todos") THEN <<TaskLine(data.todos)>> ELSE <<>>

\* the list lines of generate_summary, for a record that has a format: the
\* lists it may build (the order tags and keywords are listed in is the
\* order of iteration of a set)
SummaryLines(data) ==
    {TypeLines(data) \o StructureLines(data) \o ContentLines(data)
         \o t \o k \o TaskLines(data) :
        t \in LabelledLines(data, "tags", <<"T","a","g","s",":"," ">>),
        k \in LabelledLines(data, "keywords", <<"K","e","y","w","o","r","d","s",":"," ">>)}

\* NoteParser.generate_summary: the strings it may return; parsed_data
\* ['format'] raises KeyError on a record without a format
generate_summary(data) ==
    IF "format" \notin DOMAIN data THEN {Raised("KeyError")}
    ELSE {JoinWith(l, <<"\n">>) : l \in SummaryLines(data)}

\* {}: a dict with no key
EmptyDict == <<>>

\* analyze_content without the "if not content" guard: an empty content is
\* analysed like any other
analyze_content_unguarded(data) ==
    LET c == IF "content" \in DOMAIN data THEN data.content ELSE <<>>
    IN  {[analysis |-> a] @@ data : a \in generate_text_insights(FALSE, c)}

\* NoteParser.analyze_content (self.analyzer = TextAnalyzer(), which drops
\* stop words): the records it may return
analyze_content(data) ==
    LET c == IF "content" \in DOMAIN data THEN data.content ELSE <<>>
    IN  IF c = <<>> THEN {EmptyDict}
        ELSE {[analysis |-> a] @@ data : a \in generate_text_insights(FALSE, c)}

\* analyze_content writing the analysis into the record it was given
\* (result = parsed_data, no copy): the caller's record is the one returned
analyze_content_call_in_place(data) ==
    {[returned    |-> r,
      parsed_data |-> IF r = EmptyDict THEN data ELSE r] : r \in analyze_content(data)}

\* a call of analyze_content on the caller's record: what comes back, and
\* what the caller's record holds afterwards.  The code writes 'analysis'
\* into parsed_data.copy() only, and the early return builds a new dict.
analyze_content_call(data) ==
    {[returned |-> r, parsed_data |-> data] : r \in analyze_content(data)}

---------------------------------------------------------------------------
(* config.py: Config.  A value is a scalar (held as its Python repr) or a  *)
(* dict; a dict object that several names refer to is kept in one place.   *)

\* a value that is no dict, and a dict with the given items
Scalar(x) == [is_dict |-> FALSE, repr |-> x]

Dict(items) == [is_dict |-> TRUE, items |-> items]

\* the nested dicts of DEFAULT_CONFIG as config.py writes them
DocumentedDefaults ==
    [parsing |-> [ignore_case          |-> Scalar("True"),
                  max_tag_length       |-> Scalar("50"),
                  custom_tag_patterns  |-> Scalar("[]"),
                  custom_todo_patterns |-> Scalar("['TODO:', 'FIXME:', 'NOTE:']"),
                  extract_urls         |-> Scalar("True"),
                  extract_emails       |-> Scalar("False")],
     export  |-> [default_format      |-> Scalar("'json'"),
                  csv_delimiter       |-> Scalar("','"),
                  include_content     |-> Scalar("False"),
                  max_content_preview |-> Scalar("100")],
     summary |-> [max_tags_shown     |-> Scalar("10"),
                  max_keywords_shown |-> Scalar("8"),
                  include_word_count |-> Scalar("True"),
                  include_structure  |-> Scalar("True")]]

\* an entry of an instance's top-level dict: the nested dict of the class
\* it still refers to, or a value of its own
Shared(section) == [shared |-> TRUE, section |-> section]

Own(value) == [shared |-> FALSE, value |-> value]

\* self.DEFAULT_CONFIG.copy(): a new top-level dict whose values are the
\* same nested dict objects
ShallowCopy(defaults) == [k \in DOMAIN defaults |-> Shared(k)]

\* merge_dict(default, loaded) on a dict no other name refers to: the items
\* of default afterwards
RECURSIVE merge_dict(_, _)
merge_dict(default, loaded) ==
    [k \in DOMAIN default \cup DOMAIN loaded |->
        IF k \notin DOMAIN loaded THEN default[k]
        ELSE IF k \in DOMAIN default /\ default[k].is_dict /\ loaded[k].is_dict
             THEN Dict(merge_dict(default[k].items, loaded[k].items))
        ELSE loaded[k]]

\* merge_dict recurses into default[key]: the key is there and both values
\* are dicts
Recurses(config, loaded, k) ==
    /\ k \in DOMAIN config /\ k \in DOMAIN loaded
    /\ loaded[k].is_dict
    /\ config[k].shared \/ config[k].value.is_dict

\* _merge_config(loaded_config) on an instance with top-level dict config:
\* the top-level dict and the nested dicts of the class afterwards.  Where
\* an entry still is the class's nested dict, the recursion writes into
\* that dict.
_merge_config(config, defaults, loaded) ==
    [config |->
        [k \in DOMAIN config \cup DOMAIN loaded |->
            IF k \notin DOMAIN loaded THEN config[k]
            ELSE IF ~Recurses(config, loaded, k) THEN Own(loaded[k])
            ELSE IF config[k].shared THEN config[k]
            ELSE Own(Dict(merge_dict(config[k].value.items, loaded[k].items)))],
     defaults |->
        [s \in DOMAIN defaults |->
            IF \E k \in DOMAIN loaded :
                  Recurses(config, loaded, k) /\ config[k] = Shared(s)
            THEN merge_dict(defaults[s], loaded[s].items)
            ELSE defaults[s]]]

\* what json.load / yaml.safe_load gave for a config file: a dict, or
\* nothing usable (the file cannot be parsed, or holds no dict), and then
\* load_config prints a warning and merges nothing
load_config(config, defaults, file) ==
    IF file.usable THEN _merge_config(config, defaults, file.loaded)
    ELSE [config |-> config, defaults |-> defaults]

\* Config.__init__: the instance made, and the nested dicts of the class
\* afterwards (file.found: a config file was given or found and exists)
NewInstance(defaults, file) ==
    IF file.found THEN load_config(ShallowCopy(defaults), defaults, file)
    ELSE [config |-> ShallowCopy(defaults), defaults |-> defaults]

\* the value an entry of a top-level dict stands for
ValueOf(entry, defaults) ==
    IF entry.shared THEN Dict(defaults[entry.section]) ELSE entry.value

\* Config.get for a key path of one or two keys (key_path.split('.'))
get(config, defaults, keys, default) ==
    IF keys[1] \notin DOMAIN config THEN default
    ELSE IF Len(keys) = 1 THEN ValueOf(config[keys[1]], defaults)
    ELSE IF /\ ValueOf(config[keys[1]], defaults).is_dict
            /\ keys[2] \in DOMAIN ValueOf(config[keys[1]], defaults).items
         THEN ValueOf(config[keys[1]], defaults).items[keys[2]]
    ELSE default

---------------------------------------------------------------------------
(* watcher.py: NoteFileHandler.  Readings of time.time() are counted in    *)
(* half seconds.                                                           *)

\* the 2.0 seconds of _handle_file_change, in half seconds
Debounce == 4

\* the default of extensions
WatchedExtensions ==
    {<<".", "m", "d">>, <<".", "m", "a", "r", "k", "d", "o", "w", "n">>,
     <<".", "t", "x", "t">>}

\* Path(p).name: what follows the last "/"
RECURSIVE NameFrom(_, _)
NameFrom(p, i) ==
    IF i = 0 \/ p[i] = "/" THEN Slice(p, i + 1, Len(p)) ELSE NameFrom(p, i - 1)

\* the position of the last "." in name at or before i, 0 if there is none
RECURSIVE LastDot(_, _)
LastDot(name, i) ==
    IF i = 0 \/ name[i] = "." THEN i ELSE LastDot(name, i - 1)

\* the suffix of a name whose last "." is at position d: a "." that starts
\* or ends the name starts no suffix
SuffixAt(name, d) == IF 1 < d /\ d < Len(name) THEN Slice(name, d, Len(name)) ELSE <<>>

\* Path(p).suffix
PathSuffix(p) ==
    SuffixAt(NameFrom(p, Len(p)), LastDot(NameFrom(p, Len(p)), Len(NameFrom(p, Len(p)))))

\* before any event
NoEvent == [src_path |-> <<>>, is_directory |-> TRUE, event_type |-> "none", at |-> 0]

\* _handle_file_change(file_path) when time.time() reads now: last_processed
\* afterwards, and whether callback_func was called
_handle_file_change_restarting(processed, file_path, now) ==
    IF Lower(PathSuffix(file_path)) \notin WatchedExtensions
    THEN [last_processed |-> processed, called |-> FALSE]
    ELSE IF file_path \in DOMAIN processed /\ now - processed[file_path] < Debounce
         THEN [last_processed |-> (file_path :> now) @@ processed, called |-> FALSE]
    ELSE [last_processed |-> (file_path :> now) @@ processed, called |-> TRUE]

_handle_file_change(processed, file_path, now) ==
    IF Lower(PathSuffix(file_path)) \notin WatchedExtensions
    THEN [last_processed |-> processed, called |-> FALSE]
    ELSE IF file_path \in DOMAIN processed /\ now - processed[file_path] < Debounce
         THEN [last_processed |-> processed, called |-> FALSE]
    ELSE [last_processed |-> (file_path :> now) @@ processed, called |-> TRUE]

\* on_modified(event) and on_created(event): nothing for a directory
OnEvent(processed, ev) ==
    IF ev.is_directory
    THEN [last_processed |-> processed, called |-> FALSE]
    ELSE _handle_file_change(processed, ev.src_path, ev.at)

---------------------------------------------------------------------------
(* main.py: the batch mode of parse_notes.  A path is the sequence of its  *)
(* parts, the directory first.                                             *)

\* ord(c) for the characters of the paths
CodePoint(c) ==
    IF c = "." THEN 46
    ELSE IF IsUpper(c) THEN 64 + (CHOOSE i \in 1..26 : UpperLetters[i] = c)
    ELSE IF IsLower(c) THEN 96 + (CHOOSE i \in 1..26 : LowerLetters[i] = c)
    ELSE 0

\* a < b for two strings
RECURSIVE StrLess(_, _)
StrLess(a, b) ==
    IF b = <<>> THEN FALSE
    ELSE IF a = <<>> THEN TRUE
    ELSE IF a[1] # b[1] THEN CodePoint(a[1]) < CodePoint(b[1])
    ELSE StrLess(Tail(a), Tail(b))

\* p < q for two paths: their parts are compared one after another
RECURSIVE PathLess(_, _)
PathLess(p, q) ==
    IF q = <<>> THEN FALSE
    ELSE IF p = <<>> THEN TRUE
    ELSE IF p[1] # q[1] THEN StrLess(p[1], q[1])
    ELSE PathLess(Tail(p), Tail(q))

\* sorted(files)
RECURSIVE sorted(_)
sorted(files) ==
    IF files = {} THEN <<>>
    ELSE <<CHOOSE p \in files : \A q \in files : ~PathLess(q, p)>>
         \o sorted(files \ {CHOOSE p \in files : \A q \in files : ~PathLess(q, p)})

\* the name ends with what follows the "*" of the pattern
EndsWith(name, ext) ==
    Len(name) >= Len(ext) /\ Slice(name, Len(name) - Len(ext) + 1, Len(name)) = ext

\* dir_path.glob(ext), or dir_path.glob("**/" + ext) when recursive: the
\* entries straight under the directory, or at any depth
glob(entries, recursive, ext) ==
    {p \in DOMAIN entries : (recursive \/ Len(p) = 2) /\ EndsWith(p[Len(p)], ext)}

\* get_files_from_directory(directory, recursive)
get_files_from_directory(entries, recursive) ==
    sorted(glob(entries, recursive, <<".", "m", "d">>)
           \cup glob(entries, recursive, <<".", "m", "a", "r", "k", "d", "o", "w", "n">>)
           \cup glob(entries, recursive, <<".", "t", "x", "t">>))

\* result['tags'] = list(result['tags']), and the same for keywords
Listed(r, key) ==
    IF key \in DOMAIN r THEN {[r EXCEPT ![key] = l] : l \in ListsOf(r[key])} ELSE {r}

\* result['summary'] = parser.generate_summary(result)
\* (generate_summary raises for a record with no 'format')
WithSummary(r) ==
    IF "format" \notin DOMAIN r THEN generate_summary(r)
    ELSE {[summary |-> t] @@ r : t \in generate_summary(r)}

\* the steps of process_single_file after the parse; the lists are made
\* last here, so the order of a list of several tags is not tied to the
\* order the summary shows them in
AfterParse(r, show_summary, do_analysis) ==
    UNION { UNION { UNION { Listed(t, "keywords") : t \in Listed(u, "tags") } :
                u \in IF show_summary THEN WithSummary(a) ELSE {a} } :
        a \in IF do_analysis THEN analyze_content(r) ELSE {r} }

\* process_single_file(file_path, cfg, show_summary, do_analysis): the
\* records it can return, or the error it raises
process_single_file(entry, show_summary, do_analysis) ==
    UNION { IF DidRaise(r) THEN {r} ELSE AfterParse(r, show_summary, do_analysis) :
        r \in parse_file(entry.path, entry.content) }

\* str(file_path)
StrPath(p) == JoinWith(p, <<"/">>)

\* the body of the loop of parse_notes with the except branch taken for
\* nothing: a record is appended for a file that failed as well
AfterFile_keeping_failures(list, outcome, file_path) ==
    Append(list, [source_file |-> StrPath(file_path)] @@ outcome)

\* the body of the loop of parse_notes: results after the file
AfterFile(list, outcome, file_path) ==
    IF DidRaise(outcome) THEN list
    ELSE Append(list, [source_file |-> StrPath(file_path)] @@ outcome)

\* nothing was handed to export_batch_results or display_batch_summary
NotHanded == [to |-> "nobody", results |-> <<>>]

---------------------------------------------------------------------------
(* The inputs: texts put together from a few pieces, so that the cases of  *)
(* the patterns (header markers, todo prefixes, stop words, sentence ends) *)
(* occur in short texts.                                                   *)

\* every text made of at most n pieces
RECURSIVE Concats(_, _)
Concats(pieces, n) ==
    IF n = 0 THEN {<<>>}
    ELSE LET shorter == Concats(pieces, n - 1)
         IN  shorter \cup {t \o p : t \in shorter, p \in pieces}

MaxHeaderPieces == 3

MaxTodoPieces == 3

MaxBlankPieces == 3

MaxReadPieces == 4

MaxFreqPieces == 3

MaxPhrasePieces == 3

MaxTopN == 2

MaxWords == 2

HeaderPieces ==
    {<<"#">>, <<"#","#","#","#","#","#">>, <<"a">>, <<" ">>, <<"\n">>}

TodoPieces ==
    {<<"T","O","D","O",":"," ","x">>,
     <<"t","o","d","o"," ","y">>,
     <<"F","I","X","M","E",":"," ","x">>,
     <<"N","O","T","E",":"," ","x">>,
     <<"-"," ","["," ","]"," ","x">>,
     <<"\n">>}

\* "# Title\nSome #tag text with @alice and [keyword]. TODO: fix bug"
ScenarioText ==
    <<"#"," ","T","i","t","l","e","\n","S","o","m","e"," ","#","t","a","g"," ",
      "t","e","x","t"," ","w","i","t","h"," ","@","a","l","i","c","e"," ","a","n","d"," ",
      "[","k","e","y","w","o","r","d","]","."," ","T","O","D","O",":"," ",
      "f","i","x"," ","b","u","g">>

\* "## a\n# b", "- [x] x\n* [ ] x", "#\t a \n"
MoreTexts ==
    {<<"#","#"," ","a","\n","#"," ","b">>,
     <<"-"," ","[","x","]"," ","x","\n","*"," ","["," ","]"," ","x">>,
     <<"#","\t"," ","a"," ","\n">>}

ParseTexts ==
    Concats(HeaderPieces, MaxHeaderPieces) \cup Concats(TodoPieces, MaxTodoPieces)
        \cup {ScenarioText} \cup MoreTexts

BlankPieces == {<<" ">>, <<"\n">>, <<"\t">>, <<"a">>, <<".">>}

BlankTexts == Concats(BlankPieces, MaxBlankPieces)

\* words of one, two and three syllables, a sentence end, and a sentence
\* with no word in it
ReadPieces ==
    {<<"a"," ">>, <<"h","e","l","l","o"," ">>, <<"b","a","n","a","n","a"," ">>,
     <<".">>, <<"."," ","-">>}

ReadTexts == Concats(ReadPieces, MaxReadPieces)

FreqPieces ==
    {<<"c","a","t"," ">>, <<"d","o","g"," ">>, <<"T","h","e"," ">>,
     <<"b","e","e"," ">>, <<"1">>}

FreqTexts == Concats(FreqPieces, MaxFreqPieces)

PhrasePieces ==
    {<<"c","a","t"," ">>, <<"D","o","g","-">>, <<"t","h","e"," ">>, <<"a","b"," ">>}

PhraseTexts == Concats(PhrasePieces, MaxPhrasePieces)

\* the defaults of the keyword arguments (analyzer.py)
DefaultArgs ==
    [include_stop_words |-> FALSE, min_length |-> 3, top_n |-> 20,
     min_words |-> 2, max_words |-> 4]

\* an existing regular file with the given extension
File(suffix) == [kind |-> "file", suffix |-> suffix]

Suffixes == {<<".","m","d">>, <<".","t","x","t">>}

---------------------------------------------------------------------------
(* The operations.                                                         *)

\* what the caller holds after a parse: the record returned, or what it
\* held before when the parse raised
Held(r) == IF DidRaise(r) THEN parsed_data ELSE r

\* parser.parse_file(path)
ParseFile ==
    /\ result' \in parse_file(path, content)
    /\ op' = "parse_file"
    /\ parsed_data' = Held(result')
    /\ UNCHANGED <<elsewhere, content, path, args>>

\* parser._parse_markdown(content)
ParseMarkdown ==
    /\ result' \in _parse_markdown(content)
    /\ op' = "_parse_markdown"
    /\ parsed_data' = result'
    /\ UNCHANGED <<elsewhere, content, path, args>>

\* parser._parse_text(content)
ParseText ==
    /\ result' = _parse_text(content)
    /\ op' = "_parse_text"
    /\ parsed_data' = result'
    /\ UNCHANGED <<elsewhere, content, path, args>>

\* parser.analyze_content(parsed_data)
AnalyzeContent ==
    /\ \E call \in analyze_content_call(parsed_data) :
          /\ result' = call.returned
          /\ parsed_data' = call.parsed_data
    /\ op' = "analyze_content"
    /\ UNCHANGED <<elsewhere, content, path, args>>

\* analyzer.generate_text_insights(content)
GenerateTextInsights ==
    /\ result' \in generate_text_insights(args.include_stop_words, content)
    /\ op' = "generate_text_insights"
    /\ UNCHANGED <<elsewhere, content, path, args, parsed_data>>

\* analyzer.analyze_readability(content)
AnalyzeReadability ==
    /\ result' \in analyze_readability(content)
    /\ op' = "analyze_readability"
    /\ UNCHANGED <<elsewhere, content, path, args, parsed_data>>

\* analyzer.analyze_word_frequency(content, min_length, top_n)
AnalyzeWordFrequency ==
    /\ result' = analyze_word_frequency(args.include_stop_words, content,
                                        args.min_length, args.top_n)
    /\ op' = "analyze_word_frequency"
    /\ UNCHANGED <<elsewhere, content, path, args, parsed_data>>

\* analyzer.find_key_phrases(content, min_words, max_words, top_n)
FindKeyPhrases ==
    /\ result' = find_key_phrases(content, args.min_words, args.max_words, args.top_n)
    /\ op' = "find_key_phrases"
    /\ UNCHANGED <<elsewhere, content, path, args, parsed_data>>

\* before any operation: nothing returned, nothing held
\* no Config instance was made
NoConfigs ==
    /\ DEFAULT_CONFIG = DocumentedDefaults
    /\ configs = <<>>

\* a NoteFileHandler as __init__ leaves it
NoEvents ==
    /\ last_processed = EmptyDict
    /\ clock = 0
    /\ event = NoEvent
    /\ delivered = {}
    /\ calls = <<>>

\* no batch run
NoBatch ==
    /\ directory = EmptyDict
    /\ options = [recursive |-> FALSE, summary |-> FALSE, analyze |-> FALSE, output |-> FALSE]
    /\ batch_pc = "done"
    /\ files_to_process = <<>>
    /\ attempted = <<>>
    /\ results = <<>>
    /\ handed = NotHanded

Fresh ==
    /\ op = "init"
    /\ result = EmptyDict
    /\ parsed_data = EmptyDict
    /\ NoConfigs
    /\ NoEvents
    /\ NoBatch

\* the structural extractor on note files
Init ==
    /\ content \in ParseTexts
    /\ path \in {File(x) : x \in Suffixes}
    /\ args = DefaultArgs
    /\ Fresh

Next == ParseFile \/ ParseMarkdown \/ ParseText

Spec == Init /\ [][Next]_vars

\* extraction and analysis of empty and nearly empty texts, in files that
\* may be missing or be directories
InitAnalysis ==
    /\ content \in BlankTexts
    /\ path \in {[kind |-> k, suffix |-> x] :
                    k \in {"file", "missing", "directory"},
                    x \in Suffixes \cup {<<".","M","D">>}}
    /\ args = DefaultArgs
    /\ Fresh

NextAnalysis ==
    ParseFile \/ ParseMarkdown \/ ParseText \/ AnalyzeContent \/ GenerateTextInsights

SpecAnalysis == InitAnalysis /\ [][NextAnalysis]_vars

\* the readability scorer
InitReadability ==
    /\ content \in ReadTexts
    /\ path = File(<<".","t","x","t">>)
    /\ args = DefaultArgs
    /\ Fresh

NextReadability == AnalyzeReadability

SpecReadability == InitReadability /\ [][NextReadability]_vars

\* the word frequency count
InitWordFrequency ==
    /\ content \in FreqTexts
    /\ path = File(<<".","t","x","t">>)
    /\ args \in {[DefaultArgs EXCEPT !.include_stop_words = i,
                                     !.min_length = m, !.top_n = n] :
                    i \in BOOLEAN, m \in {3, 4}, n \in 0..MaxTopN}
    /\ Fresh

NextWordFrequency == AnalyzeWordFrequency

SpecWordFrequency == InitWordFrequency /\ [][NextWordFrequency]_vars

\* the key phrases
InitKeyPhrases ==
    /\ content \in PhraseTexts
    /\ path = File(<<".","t","x","t">>)
    /\ args \in {[DefaultArgs EXCEPT !.min_words = a, !.max_words = b, !.top_n = n] :
                    a \in 1..MaxWords, b \in 1..MaxWords, n \in 0..MaxTopN}
    /\ Fresh

NextKeyPhrases == FindKeyPhrases

SpecKeyPhrases == InitKeyPhrases /\ [][NextKeyPhrases]_vars

MaxSyllablePieces == 4

SyllablePieces == {<<"a">>, <<"e">>, <<"E">>, <<"t">>, <<"y">>}

\* "cat", "hello", "tape", "TAPE", "rhythm"
SyllableWords ==
    Concats(SyllablePieces, MaxSyllablePieces)
        \cup {<<"c","a","t">>, <<"h","e","l","l","o">>, <<"t","a","p","e">>,
              <<"T","A","P","E">>, <<"r","h","y","t","h","m">>}

\* analyzer._count_syllables(word), the word held in content
CountSyllables ==
    /\ result' = _count_syllables(content)
    /\ op' = "_count_syllables"
    /\ UNCHANGED <<elsewhere, content, path, args, parsed_data>>

\* the syllable estimate of single words
InitSyllables ==
    /\ content \in SyllableWords
    /\ path = File(<<".","t","x","t">>)
    /\ args = DefaultArgs
    /\ Fresh

NextSyllables == CountSyllables

SpecSyllables == InitSyllables /\ [][NextSyllables]_vars

MaxSentimentPieces == 4

SentimentPieces ==
    {<<"g","r","e","a","t">>, <<"b","u","g">>, <<"B","U","G">>, <<"s">>,
     <<" ">>, <<"u","r","g","e","n","t">>, <<"_">>}

\* "This is great but the bug is urgent"
SentimentScenario ==
    <<"T","h","i","s"," ","i","s"," ","g","r","e","a","t"," ","b","u","t"," ",
      "t","h","e"," ","b","u","g"," ","i","s"," ","u","r","g","e","n","t">>

SentimentTexts ==
    Concats(SentimentPieces, MaxSentimentPieces) \cup {SentimentScenario}

\* analyzer.analyze_sentiment_indicators(content)
AnalyzeSentimentIndicators ==
    /\ result' = analyze_sentiment_indicators(content)
    /\ op' = "analyze_sentiment_indicators"
    /\ UNCHANGED <<elsewhere, content, path, args, parsed_data>>

\* the sentiment counter
InitSentiment ==
    /\ content \in SentimentTexts
    /\ path = File(<<".","t","x","t">>)
    /\ args = DefaultArgs
    /\ Fresh

NextSentiment == AnalyzeSentimentIndicators

SpecSentiment == InitSentiment /\ [][NextSentiment]_vars

MaxSummaryPieces == 3

\* "# h\n", "#t ", "@k ", "TODO: x\n", "todo y\n", "- [x] a\n"
SummaryPieces ==
    {<<"#"," ","h","\n">>, <<"#","t"," ">>, <<"@","k"," ">>,
     <<"T","O","D","O",":"," ","x","\n">>, <<"t","o","d","o"," ","y","\n">>,
     <<"-"," ","[","x","]"," ","a","\n">>}

SummaryTexts == Concats(SummaryPieces, MaxSummaryPieces)

\* parser.generate_summary(parsed_data)
GenerateSummary ==
    /\ result' \in generate_summary(parsed_data)
    /\ op' = "generate_summary"
    /\ UNCHANGED <<elsewhere, content, path, args, parsed_data>>

\* the digest of parsed notes
InitSummary ==
    /\ content \in SummaryTexts
    /\ path \in {File(x) : x \in Suffixes}
    /\ args = DefaultArgs
    /\ Fresh

NextSummary == ParseMarkdown \/ ParseText \/ GenerateSummary

SpecSummary == InitSummary /\ [][NextSummary]_vars

---------------------------------------------------------------------------
(* Config instances made one after another in one process                  *)
(* (specification SpecConfig).                                             *)

MaxConfigs == 2

\* no config file was given or found
NoFile == [found |-> FALSE, usable |-> FALSE, loaded |-> EmptyDict]

\* a config file that cannot be parsed or holds no dict
BrokenFile == [found |-> TRUE, usable |-> FALSE, loaded |-> EmptyDict]

FileWith(loaded) == [found |-> TRUE, usable |-> TRUE, loaded |-> loaded]

\* what config files hold: overrides inside a section, a section replaced
\* by a scalar, a section the defaults do not have, a new key in a section
LoadedConfigs ==
    { [parsing |-> Dict([ignore_case |-> Scalar("False")])],
      [export  |-> Dict([default_format |-> Scalar("'csv'")]),
       parsing |-> Dict([max_tag_length |-> Scalar("10")])],
      [parsing |-> Scalar("5")],
      [extra   |-> Dict([a |-> Scalar("1")])],
      [summary |-> Dict([new_key |-> Scalar("1")])] }

ConfigFiles == {NoFile, BrokenFile} \cup {FileWith(l) : l \in LoadedConfigs}

\* cfg = Config(config) with the file it is given or finds
NewConfig ==
    /\ Len(configs) < MaxConfigs
    /\ \E file \in ConfigFiles :
          /\ configs' = Append(configs,
                 [config |-> NewInstance(DEFAULT_CONFIG, file).config,
                  config_path |-> file.found])
          /\ DEFAULT_CONFIG' = NewInstance(DEFAULT_CONFIG, file).defaults
    /\ op' = "Config"
    /\ UNCHANGED <<watcher, batch, content, path, args, parsed_data, result>>

\* cfg._merge_config(loaded) on an instance made earlier
MergeConfig ==
    /\ \E i \in 1..Len(configs), loaded \in LoadedConfigs :
          /\ configs' = [configs EXCEPT ![i].config =
                 _merge_config(configs[i].config, DEFAULT_CONFIG, loaded).config]
          /\ DEFAULT_CONFIG' =
                 _merge_config(configs[i].config, DEFAULT_CONFIG, loaded).defaults
    /\ op' = "_merge_config"
    /\ UNCHANGED <<watcher, batch, content, path, args, parsed_data, result>>

InitConfig ==
    /\ content = <<>>
    /\ path = File(".txt")
    /\ args = DefaultArgs
    /\ Fresh

NextConfig == NewConfig \/ MergeConfig

SpecConfig == InitConfig /\ [][NextConfig]_vars

---------------------------------------------------------------------------
(* Events given to one NoteFileHandler, the clock never running backwards  *)
(* (specification SpecWatcher).                                            *)

MaxStep == 4

MaxClock == 6

\* the paths events come for
WatchPaths ==
    {<<"a", ".", "m", "d">>, <<"d", "/", "b", ".", "T", "X", "T">>,
     <<"c", ".", "p", "y">>, <<".", "m", "d">>}

\* the events that can come when the clock last read t
EventsAfter(t, type) ==
    {[src_path |-> p, is_directory |-> d, event_type |-> type, at |-> n] :
        p \in WatchPaths, d \in BOOLEAN, n \in t..Min(t + MaxStep, MaxClock)}

\* the handler is given the event ev
Deliver(ev) ==
    /\ event' = ev
    /\ clock' = ev.at
    /\ delivered' = IF ev.is_directory THEN delivered ELSE delivered \cup {ev.src_path}
    /\ last_processed' = OnEvent(last_processed, ev).last_processed
    /\ calls' = IF OnEvent(last_processed, ev).called
                THEN Append(calls, [file_path |-> ev.src_path, at |-> ev.at])
                ELSE calls
    /\ op' = ev.event_type
    /\ UNCHANGED <<DEFAULT_CONFIG, configs, batch, content, path, args, parsed_data, result>>

on_modified == \E ev \in EventsAfter(clock, "on_modified") : Deliver(ev)

on_created == \E ev \in EventsAfter(clock, "on_created") : Deliver(ev)

InitWatcher ==
    /\ content = <<>>
    /\ path = File(".txt")
    /\ args = DefaultArgs
    /\ Fresh

NextWatcher == on_modified \/ on_created

SpecWatcher == InitWatcher /\ [][NextWatcher]_vars

---------------------------------------------------------------------------
(* One batch run of parse_notes over a directory                           *)
(* (specification SpecBatch).                                              *)

MaxEntries == 3

\* a regular file holding the text c, a file that is gone when it is
\* opened, and a directory
NoteFile(suffix, c) == [path |-> File(suffix), content |-> c]

GoneFile(suffix) == [path |-> [kind |-> "missing", suffix |-> suffix], content |-> <<>>]

SubDirectory(suffix) == [path |-> [kind |-> "directory", suffix |-> suffix], content |-> <<>>]

\* the entries a directory n can hold, by path
EntryChoices ==
    [path : {<<<<"n">>, <<"a", ".", "t", "x", "t">>>>},
     entry : {NoteFile(<<".", "t", "x", "t">>, <<"#", "t", " ", "a">>),
              NoteFile(<<".", "t", "x", "t">>, <<" ">>)}]
    \cup
    [path : {<<<<"n">>, <<"b", ".", "m", "d">>>>},
     entry : {NoteFile(<<".", "m", "d">>, <<"#", "t", " ", "@", "k">>),
              GoneFile(<<".", "m", "d">>)}]
    \cup
    [path : {<<<<"n">>, <<"s">>, <<"c", ".", "m", "d">>>>},
     entry : {NoteFile(<<".", "m", "d">>, <<"#", " ", "h">>),
              SubDirectory(<<".", "m", "d">>)}]
    \cup
    [path : {<<<<"n">>, <<"d", ".", "p", "y">>>>},
     entry : {NoteFile(<<".", "p", "y">>, <<"x">>)}]

\* the directories: at most MaxEntries entries, one entry to a path
Directories ==
    {[p \in {c.path : c \in S} |-> (CHOOSE c \in S : c.path = p).entry] :
        S \in {T \in SUBSET EntryChoices :
                  /\ Cardinality(T) <= MaxEntries
                  /\ \A c, d \in T : c.path = d.path => c = d}}

\* files_to_process = get_files_from_directory(directory, recursive), and
\* the return when there is none
GetFiles ==
    /\ batch_pc = "start"
    /\ files_to_process' = get_files_from_directory(directory, options.recursive)
    /\ batch_pc' = IF files_to_process' = <<>> THEN "done" ELSE "loop"
    /\ op' = "get_files_from_directory"
    /\ UNCHANGED <<DEFAULT_CONFIG, configs, watcher, directory, options, attempted,
                   results, handed, content, path, args, parsed_data, result>>

\* one round of the loop over files_to_process
ProcessSingleFile ==
    /\ batch_pc = "loop"
    /\ Len(attempted) < Len(files_to_process)
    /\ \E outcome \in process_single_file(
              directory[files_to_process[Len(attempted) + 1]],
              options.summary, options.analyze) :
          /\ result' = outcome
          /\ attempted' = Append(attempted,
                 [file_path |-> files_to_process[Len(attempted) + 1],
                  raised |-> DidRaise(outcome)])
          /\ results' = AfterFile(results, outcome, files_to_process[Len(attempted) + 1])
    /\ op' = "process_single_file"
    /\ UNCHANGED <<DEFAULT_CONFIG, configs, watcher, directory, options, batch_pc,
                   files_to_process, handed, content, path, args, parsed_data>>

\* after the loop: export_batch_results(results, output) or
\* display_batch_summary(results)
HandResults ==
    /\ batch_pc = "loop"
    /\ Len(attempted) = Len(files_to_process)
    /\ handed' = [to |-> IF options.output THEN "export_batch_results"
                         ELSE "display_batch_summary",
                  results |-> results]
    /\ batch_pc' = "done"
    /\ op' = handed'.to
    /\ UNCHANGED <<DEFAULT_CONFIG, configs, watcher, directory, options,
                   files_to_process, attempted, results, content, path, args,
                   parsed_data, result>>

InitBatch ==
    /\ content = <<>>
    /\ path = File(".txt")
    /\ args = DefaultArgs
    /\ op = "init"
    /\ result = EmptyDict
    /\ parsed_data = EmptyDict
    /\ NoConfigs
    /\ NoEvents
    /\ directory \in Directories
    /\ options \in [recursive : BOOLEAN, summary : BOOLEAN, analyze : BOOLEAN,
                    output : BOOLEAN]
    /\ batch_pc = "start"
    /\ files_to_process = <<>>
    /\ attempted = <<>>
    /\ results = <<>>
    /\ handed = NotHanded

NextBatch == GetFiles \/ ProcessSingleFile \/ HandResults

SpecBatch == InitBatch /\ [][NextBatch]_vars

---------------------------------------------------------------------------
(* The properties of the structural extractor (specification Spec).        *)

\* the positions at which a physical line of c starts
LineStarts(c) == {i \in 1..Len(c) : LineStart(c, i)}

\* the length of the physical line that starts at i (its "\n" left out)
RECURSIVE LineLen(_, _)
LineLen(c, i) ==
    IF i > Len(c) \/ c[i] = "\n" THEN 0 ELSE 1 + LineLen(c, i + 1)

\* the physical line that starts at i
LineAt(c, i) == Slice(c, i, i + LineLen(c, i) - 1)

\* the "#" at position i stands in a run of "#" that begins its line, among
\* the first six of the run
InHeaderMarker(c, i) ==
    \E k \in 0..(MaxHeaderLevel - 1) : MarkerBehind(c, i, k)

\* the tags of the tag rule: the word-character run after every "#" that is
\* followed by a word character and is not part of a header marker
TagRuleTags(c) ==
    {Slice(c, i + 1, i + WordRun(c, i + 1)) :
        i \in {j \in 1..Len(c) : /\ c[j] = "#"
                                 /\ WordRun(c, j + 1) >= 1
                                 /\ ~InHeaderMarker(c, j)}}

\* C1: for format=markdown, _parse_markdown returns no tag from a "#" of the
\* run of 1 to 6 "#" at the start of a line (a line "#tag" or "##tag" gives
\* no tag), and every other "#" followed by one or more word characters
\* contributes its word-character run to tags.
C1_TagRule ==
    op = "_parse_markdown" => result.tags = TagRuleTags(content)

\* the header a physical line defines by itself: it begins with 1 to 6 "#",
\* whitespace follows on the line, and the title is the trimmed remainder
LineHeader(line) ==
    [level |-> HashRun(line, 1),
     title |-> Strip(Slice(line, HashRun(line, 1) + 1, Len(line)))]

IsHeaderLine(line) ==
    /\ HashRun(line, 1) \in 1..MaxHeaderLevel
    /\ HashRun(line, 1) < Len(line)
    /\ IsSpace(line[HashRun(line, 1) + 1])

\* every header of hs is the header of a physical line of c that starts at
\* or after position i, the lines of later headers coming later
RECURSIVE HeadersFromLines(_, _, _)
HeadersFromLines(hs, c, i) ==
    \/ hs = <<>>
    \/ \E j \in {k \in LineStarts(c) : k >= i} :
          /\ IsHeaderLine(LineAt(c, j))
          /\ Head(hs) = LineHeader(LineAt(c, j))
          /\ HeadersFromLines(Tail(hs), c, j + 1)

\* C2: for format=markdown, every header (level, title) of _parse_markdown
\* comes from one physical line that begins with exactly level "#"
\* (1 <= level <= 6) followed by whitespace, the title is the trimmed
\* remainder of that same line, and the headers are in document order.
C2_HeadersPerLine ==
    op = "_parse_markdown" => HeadersFromLines(result.headers, content, 1)

\* no element occurs twice in the list l
NoDuplicates(l) == \A j, k \in 1..Len(l) : l[j] = l[k] => j = k

\* C3: for both formats, the todos of the returned structural record hold no
\* duplicate entries: two matches with the same text are collapsed into one.
C3_TodosDeduplicated ==
    (op \in {"_parse_markdown", "_parse_text", "parse_file"} /\ ~DidRaise(result))
        => NoDuplicates(result.todos)

\* C9: parsing "# Title\nSome #tag text with @alice and [keyword]. TODO: fix
\* bug" as markdown yields headers = [(1, "Title")], tags = {"tag"},
\* keywords = {"alice", "keyword"} and todos that contain "fix bug".
C9_Scenario ==
    (/\ content = ScenarioText
     /\ \/ op = "_parse_markdown"
        \/ op = "parse_file" /\ _detect_format(path.suffix) = "markdown")
        => /\ result.headers = <<[level |-> 1, title |-> <<"T","i","t","l","e">>]>>
           /\ result.tags = {<<"t","a","g">>}
           /\ result.keywords = {<<"a","l","i","c","e">>,
                                 <<"k","e","y","w","o","r","d">>}
           /\ \E k \in 1..Len(result.todos) :
                 result.todos[k] = <<"f","i","x"," ","b","u","g">>

\* the scenario text has been parsed as markdown
C9_ScenarioParsed ==
    /\ content = ScenarioText
    /\ op = "_parse_markdown"
    /\ result.format = "markdown"
    /\ Len(result.headers) = 1

\* the prefixes the todos are said to pool
TodoPrefixes ==
    {<<"T","O","D","O",":">>, <<"F","I","X","M","E",":">>, <<"N","O","T","E",":">>}

\* the task descriptions of the lines "<prefix> text" of c
PrefixedTasks(c) ==
    {Strip(Slice(LineAt(c, i), Len(pre) + 1, LineLen(c, i))) :
        <<i, pre>> \in {x \in LineStarts(c) \X TodoPrefixes :
                           /\ LitAt(c, x[1], x[2])
                           /\ LineLen(c, x[1]) > Len(x[2])
                           /\ Strip(Slice(LineAt(c, x[1]), Len(x[2]) + 1,
                                          LineLen(c, x[1]))) # <<>>}}

\* C10: the todos pool the prefixes TODO:, FIXME: and NOTE:; a line
\* "FIXME: text" or "NOTE: text" contributes the task description "text" to
\* todos, just as "TODO: text" does.
C10_PrefixesPooled ==
    op \in {"_parse_markdown", "_parse_text"}
        => PrefixedTasks(content) \subseteq SetOf(result.todos)

---------------------------------------------------------------------------
(* The properties of empty and whitespace-only texts (SpecAnalysis).       *)

\* the text is empty or whitespace-only
IsBlank(c) == Strip(c) = <<>>

\* the analysis of a text with no word in it: nothing counted
ZeroInsights ==
    [top_words            |-> <<>>,
     key_phrases          |-> <<>>,
     readability          |-> [sentences              |-> 0,
                               words                  |-> 0,
                               avg_words_per_sentence |-> 0,
                               avg_syllables_per_word |-> 0],
     sentiment_indicators |-> [positive_indicators |-> 0,
                               negative_indicators |-> 0,
                               urgent_indicators   |-> 0]]

\* C4, as stated: when the text is empty or whitespace-only, extraction and
\* analysis are rejected with an error: parse_file raises, and
\* analyze_content and generate_text_insights never return an empty or
\* all-zero record silently.
C4_BlankRejected ==
    (/\ IsBlank(content)
     /\ \/ op \in {"parse_file", "generate_text_insights"}
        \/ op = "analyze_content" /\ "content" \in DOMAIN parsed_data)
        => DidRaise(result)

\* C4, amended: when the text is empty or whitespace-only, parse_file raises
\* an error (ValueError for an existing regular file); generate_text_insights
\* does not raise and returns the analysis with nothing counted;
\* analyze_content does not raise and returns the empty record when the
\* record it is given has no content or an empty one, and otherwise that
\* record with the nothing-counted analysis added under "analysis".
C4_BlankHandling ==
    IsBlank(content) =>
        /\ op = "parse_file" =>
              /\ DidRaise(result)
              /\ path.kind = "file" => result = Raised("ValueError")
        /\ op = "generate_text_insights" => result = ZeroInsights
        /\ op = "analyze_content" =>
              IF parsed_data = EmptyDict \/ parsed_data.content = <<>>
              THEN result = EmptyDict
              ELSE /\ DOMAIN result = DOMAIN parsed_data \cup {"analysis"}
                   /\ result.analysis = ZeroInsights
                   /\ \A k \in DOMAIN parsed_data : result[k] = parsed_data[k]

\* a whitespace-only text has been parsed and analysed: the record came
\* back with an analysis
C4_WhitespaceAnalysed ==
    /\ op = "analyze_content"
    /\ content # <<>>
    /\ IsBlank(content)
    /\ result # EmptyDict
    /\ result.analysis = ZeroInsights

---------------------------------------------------------------------------
(* The properties of the readability scorer (SpecReadability).             *)

\* the fields of the readability record
ReadabilityFields ==
    {"sentences", "words", "syllables", "avg_words_per_sentence",
     "avg_syllables_per_word", "flesch_reading_ease"}

\* C5: when the content has no sentence or no word (empty content
\* included), analyze_readability does not raise and returns a record in
\* which every field of the readability record (sentence count, word count,
\* syllable count, the two averages, Flesch reading ease) is present and
\* equal to zero.
C5_ZeroRecordComplete ==
    (op = "analyze_readability"
        /\ (Sentences(content) = <<>> \/ ReadabilityWords(content) = <<>>))
        => /\ ~DidRaise(result)
           /\ DOMAIN result = ReadabilityFields
           /\ \A k \in DOMAIN result : result[k] = 0

\* the absolute value of an integer
Abs(x) == IF x < 0 THEN -x ELSE x

\* t tenths is 206.835 - 1.015 * (W / S) - 84.6 * (Y / W), clamped to
\* [0, 100] and then rounded to one decimal.  The unclamped score is n / d
\* with d = 1000 * S * W; a value that lies half way between two tenths may
\* round to either.
IsFleschOf(t, S, W, Y) ==
    LET d == 1000 * S * W
        n == 206835 * S * W - 1015 * W * W - 84600 * Y * S
    IN  IF n <= 0 THEN t = 0
        ELSE IF n >= 100 * d THEN t = 1000
        ELSE 2 * Abs(10 * n - t * d) <= d

\* C6: for every content with at least one sentence and one word, the
\* flesch_reading_ease of analyze_readability lies in [0, 100]: it is
\* 206.835 - 1.015 * avgWordsPerSentence - 84.6 * avgSyllablesPerWord from
\* the unrounded averages, clamped to [0, 100] and only then rounded.
C6_FleschClampedThenRounded ==
    (op = "analyze_readability"
        /\ Sentences(content) # <<>> /\ ReadabilityWords(content) # <<>>)
        => /\ result.flesch_reading_ease \in 0..1000
           /\ IsFleschOf(result.flesch_reading_ease,
                         Len(Sentences(content)),
                         Len(ReadabilityWords(content)),
                         SumSyllables(ReadabilityWords(content)))

\* a score strictly inside the range was returned for a text whose average
\* syllables per word is no whole number of hundredths
C6_InsideRange ==
    /\ op = "analyze_readability"
    /\ ReadabilityWords(content) # <<>>
    /\ "flesch_reading_ease" \in DOMAIN result
    /\ result.flesch_reading_ease \in 1..999
    /\ (100 * SumSyllables(ReadabilityWords(content)))
           % Len(ReadabilityWords(content)) # 0

---------------------------------------------------------------------------
(* The properties of the word frequency count (SpecWordFrequency).         *)

\* position i of c starts a qualifying token: a maximal run of at least
\* min_length letters, no word character next to it, that is no stop word
\* unless stop words are included
StartsToken(c, i, min_length, include_stop_words) ==
    /\ IsAlpha(c[i])
    /\ i = 1 \/ ~IsWordChar(c[i - 1])
    /\ AlphaRun(c, i) >= min_length
    /\ i + AlphaRun(c, i) > Len(c) \/ ~IsWordChar(c[i + AlphaRun(c, i)])
    /\ include_stop_words
          \/ Lower(Slice(c, i, i + AlphaRun(c, i) - 1)) \notin STOP_WORDS

\* the position at which the word w is first met in c as a qualifying token
\* (0: nowhere)
FirstSeen(c, w, min_length, include_stop_words) ==
    LET at == {i \in 1..Len(c) :
                  /\ StartsToken(c, i, min_length, include_stop_words)
                  /\ Lower(Slice(c, i, i + AlphaRun(c, i) - 1)) = w}
    IN  IF at = {} THEN 0 ELSE CHOOSE i \in at : \A j \in at : i <= j

\* the sum of the counts of the entries k..Len(entries)
RECURSIVE SumCounts(_, _)
SumCounts(entries, k) ==
    IF k > Len(entries) THEN 0 ELSE entries[k][2] + SumCounts(entries, k + 1)

\* C7: for every text and every top_n >= 0, analyze_word_frequency returns
\* at most top_n (word, count) entries sorted by non-increasing count,
\* entries with equal counts in the order their words were first met in the
\* text, and the counts sum to at most the number of qualifying tokens
\* (alphabetic runs of at least min_length letters, stop words removed
\* unless include_stop_words is set).
C7_TopWordsOrdered ==
    op = "analyze_word_frequency" =>
        /\ Len(result) <= args.top_n
        /\ \A j, k \in 1..Len(result) :
              j < k =>
                 /\ result[j][2] >= result[k][2]
                 /\ result[j][2] = result[k][2] =>
                       /\ FirstSeen(content, result[j][1], args.min_length,
                                    args.include_stop_words) >= 1
                       /\ FirstSeen(content, result[j][1], args.min_length,
                                    args.include_stop_words)
                            < FirstSeen(content, result[k][1], args.min_length,
                                        args.include_stop_words)
        /\ SumCounts(result, 1)
              <= Cardinality({i \in 1..Len(content) :
                                 StartsToken(content, i, args.min_length,
                                             args.include_stop_words)})

\* the count returned the most frequent word alone, a word met after a
\* less frequent one that was left out
C7_SortedAndCut ==
    /\ op = "analyze_word_frequency"
    /\ args.top_n = 1
    /\ Len(result) = 1
    /\ result[1][2] = 2
    /\ StartsToken(content, 1, args.min_length, args.include_stop_words)
    /\ FirstSeen(content, result[1][1], args.min_length,
                 args.include_stop_words) > 1

---------------------------------------------------------------------------
(* The properties of the key phrases (SpecKeyPhrases).                     *)

\* the tokens of a phrase: its parts between the spaces
PhraseTokens(phrase) == SplitFrom(phrase, 1)

\* phrase is the space-joined window of n consecutive words of the list
IsWindow(phrase, words, n) ==
    \E i \in 1..(Len(words) - n + 1) :
        /\ \A j \in 1..n : /\ words[i + j - 1] \notin STOP_WORDS
                           /\ Len(words[i + j - 1]) >= 3
        /\ phrase = Join(SubSeq(words, i, i + n - 1))

\* C8: for every text and every min_words >= 1, each phrase of
\* find_key_phrases is a space-joined window of n consecutive tokens of the
\* filtered token sequence with min_words <= n <= max_words, and no token
\* of a returned phrase is a stop word or shorter than 3 characters.
C8_PhrasesAreWindows ==
    op = "find_key_phrases" =>
        \A k \in 1..Len(result) :
            /\ \E n \in args.min_words..args.max_words :
                  IsWindow(result[k][1], PhraseWords(content), n)
            /\ \A j \in 1..Len(PhraseTokens(result[k][1])) :
                  /\ PhraseTokens(result[k][1])[j] \notin STOP_WORDS
                  /\ Len(PhraseTokens(result[k][1])[j]) >= 3

\* a phrase of two tokens was returned for a text that also holds a stop
\* word or a short token
C8_PhraseAcrossDropped ==
    /\ op = "find_key_phrases"
    /\ Len(result) >= 1
    /\ Len(PhraseTokens(result[1][1])) = 2
    /\ Len(SplitFrom(CleanContent(content), 1)) > Len(PhraseWords(content))

---------------------------------------------------------------------------
(* The properties of the syllable estimate (SpecSyllables).                *)

\* a vowel, in either case
IsVowelLetter(c) == c \in {"a", "e", "i", "o", "u", "y", "A", "E", "I", "O", "U", "Y"}

\* the number of transitions from a non-vowel (or the start of the word) to
\* a vowel
VowelStarts(w) ==
    Cardinality({i \in 1..Len(w) :
                    /\ IsVowelLetter(w[i])
                    /\ i = 1 \/ ~IsVowelLetter(w[i - 1])})

\* C11: for every word, _count_syllables returns an integer >= 1: exactly 1
\* when the word has at most 3 characters, otherwise the number of
\* non-vowel-to-vowel transitions (vowels a, e, i, o, u, y in either case),
\* minus one if the word ends in e (the word is lowercased first, so a final
\* E counts too), floored at 1; "cat" gives 1, "hello" 2 and "tape" 1.
C11_SyllableEstimate ==
    op = "_count_syllables" =>
        /\ result \in Nat /\ result >= 1
        /\ Len(content) <= 3 => result = 1
        /\ Len(content) > 3 =>
              LET n == VowelStarts(content)
                         - (IF content[Len(content)] \in {"e", "E"} THEN 1 ELSE 0)
              IN  result = IF n < 1 THEN 1 ELSE n
        /\ content = <<"c","a","t">> => result = 1
        /\ content = <<"h","e","l","l","o">> => result = 2
        /\ content = <<"t","a","p","e">> => result = 1

\* a word of more than 3 characters whose only vowel is its final e was
\* counted: the floor applied
C11_FloorApplied ==
    /\ op = "_count_syllables"
    /\ Len(content) > 3
    /\ VowelStarts(content) = 1
    /\ content[Len(content)] = "e"
    /\ result = 1

---------------------------------------------------------------------------
(* The properties of the sentiment counter (SpecSentiment).                *)

\* the positions of c at which a word token (a maximal run of word
\* characters) starts
TokenStarts(c) ==
    {i \in 1..Len(c) : IsWordChar(c[i]) /\ (i = 1 \/ ~IsWordChar(c[i - 1]))}

\* the number of word tokens of c that are, case aside, a word of the lexicon
WholeWordHits(c, lexicon) ==
    Cardinality({i \in TokenStarts(c) :
                    Lower(Slice(c, i, i + WordRun(c, i) - 1)) \in lexicon})

\* C12: analyze_sentiment_indicators counts, for each of the positive,
\* negative and urgent lexicons, the word tokens of the content (with
\* multiplicity, no length or stop-word filter) that equal a lexicon word
\* case-insensitively as a whole word, never as a part of a longer word; on
\* "This is great but the bug is urgent" the counts are 1, 1 and 1.
C12_SentimentCounts ==
    op = "analyze_sentiment_indicators" =>
        /\ result = [positive_indicators |-> WholeWordHits(content, positive_words),
                     negative_indicators |-> WholeWordHits(content, negative_words),
                     urgent_indicators   |-> WholeWordHits(content, urgent_words)]
        /\ content = SentimentScenario =>
              result = [positive_indicators |-> 1,
                        negative_indicators |-> 1,
                        urgent_indicators   |-> 1]

\* an upper-case "BUG" was counted while another "bug", part of a longer
\* word, was not
C12_WholeWordsOnly ==
    /\ op = "analyze_sentiment_indicators"
    /\ result.negative_indicators = 1
    /\ \E i \in TokenStarts(content) :
          Slice(content, i, i + WordRun(content, i) - 1) = <<"B","U","G">>
    /\ Cardinality({i \in 1..Len(content) :
                       LitAtNoCase(content, i, <<"B","U","G">>)}) = 2

---------------------------------------------------------------------------
(* The properties of the digest (SpecSummary).                             *)

\* the labels of the lines of the digest, in their fixed order: document
\* type, structure, content counts, tags, keywords, tasks
LineLabels ==
    <<<<"D","o","c","u","m","e","n","t"," ","T","y","p","e",":"," ">>, <<"S","t","r","u","c","t","u","r","e",":"," ">>, <<"C","o","n","t","e","n","t",":"," ">>, <<"T","a","g","s",":"," ">>, <<"K","e","y","w","o","r","d","s",":"," ">>,
      <<"T","a","s","k","s",":"," ">>>>

\* the place of a line's label in LineLabels (0: the line has none)
LineKind(line) ==
    IF \E k \in 1..Len(LineLabels) : LitAt(line, 1, LineLabels[k])
    THEN CHOOSE k \in 1..Len(LineLabels) : LitAt(line, 1, LineLabels[k])
    ELSE 0

\* the todos of a record (none when it has no such key)
TodosOf(data) == IF "todos" \in DOMAIN data THEN data.todos ELSE <<>>

\* the number of todos whose text contains the character x
CompletedOf(data) ==
    Cardinality({k \in 1..Len(TodosOf(data)) : "x" \in SetOf(TodosOf(data)[k])})

\* the lines are in the fixed order, and the task line is there exactly when
\* there are todos and reports completed/total
IsDigestOf(lines, data) ==
    /\ \A k \in 1..Len(lines) : LineKind(lines[k]) >= 1
    /\ \A j, k \in 1..Len(lines) : j < k => LineKind(lines[j]) < LineKind(lines[k])
    /\ LineKind(lines[1]) = 1
    /\ (\E k \in 1..Len(lines) : LineKind(lines[k]) = 6) <=> TodosOf(data) # <<>>
    /\ \A k \in 1..Len(lines) :
          LineKind(lines[k]) = 6 =>
              /\ CompletedOf(data) \in 0..Len(TodosOf(data))
              /\ lines[k] = <<"T","a","s","k","s",":"," ">> \o Str(CompletedOf(data)) \o <<"/">>
                               \o Str(Len(TodosOf(data))) \o <<" ","c","o","m","p","l","e","t","e","d">>

\* C13: in the digest of generate_summary the task line is present exactly
\* when todos is non-empty and reports completed/total, total the number of
\* todos and completed the number of todos whose text contains the
\* character x, so 0 <= completed <= total; the lines appear in the fixed
\* order document type, structure, content counts, tags, keywords, tasks.
C13_DigestLines ==
    (op = "generate_summary" /\ "format" \in DOMAIN parsed_data) =>
        \E lines \in SummaryLines(parsed_data) :
            /\ result = JoinWith(lines, <<"\n">>)
            /\ IsDigestOf(lines, parsed_data)

\* a digest with a structure line was made of two todos of which one holds
\* an x: it ends with "Tasks: 1/2 completed"
C13_OneOfTwoCompleted ==
    /\ op = "generate_summary"
    /\ "headers" \in DOMAIN parsed_data
    /\ Len(parsed_data.headers) = 1
    /\ Len(parsed_data.todos) = 2
    /\ Len(result) > 20
    /\ Slice(result, Len(result) - 19, Len(result)) = <<"T","a","s","k","s",":"," ","1","/","2"," ","c","o","m","p","l","e","t","e","d">>

---------------------------------------------------------------------------
(* The frame of analyze_content (SpecAnalysis).                            *)

\* C14: analyze_content never modifies the structural record it is given:
\* whether it succeeds or returns early on empty content, the caller's
\* parsed_data has the same keys and values as before the call (no analysis
\* key is added to it); on success the analysis is attached only to the
\* returned copy, which carries every key of the input plus analysis.
C14_AnalyzeContentFrame ==
    [][op' = "analyze_content" =>
          /\ parsed_data' = parsed_data
          /\ \/ result' = EmptyDict
             \/ /\ DOMAIN result' = DOMAIN parsed_data \cup {"analysis"}
                /\ "analysis" \notin DOMAIN parsed_data'
                /\ \A k \in DOMAIN parsed_data : result'[k] = parsed_data[k]]_vars

\* a parsed text with a word in it has been analysed: the analysis is in
\* the returned record and not in the caller's
C14_AnalysisAttached ==
    /\ op = "analyze_content"
    /\ ~IsBlank(content)
    /\ parsed_data # EmptyDict
    /\ "analysis" \in DOMAIN result
    /\ "analysis" \notin DOMAIN parsed_data
    /\ result.analysis # ZeroInsights

---------------------------------------------------------------------------
(* Config (specification SpecConfig).                                      *)

\* the key paths of the documented defaults
DefaultKeyPaths ==
    {<<s, k>> : s \in DOMAIN DocumentedDefaults, k \in {"ignore_case", "max_tag_length", "custom_tag_patterns", "custom_todo_patterns", "extract_urls", "extract_emails", "default_format", "csv_delimiter", "include_content", "max_content_preview", "max_tags_shown", "max_keywords_shown", "include_word_count", "include_structure"}}

\* marks a key the walk of get did not find
Missing == Scalar("<missing>")

\* get on an instance with every key path of the documented defaults gives
\* what the documented defaults hold there
GivesDefaults(config, defaults) ==
    \A keys \in DefaultKeyPaths :
        get(config, defaults, keys, Missing) =
            IF keys[2] \in DOMAIN DocumentedDefaults[keys[1]]
            THEN DocumentedDefaults[keys[1]][keys[2]]
            ELSE Missing

\* C15: whatever instances were made and merged into, DEFAULT_CONFIG still
\* holds the documented defaults, nested dicts included, and a Config made
\* now with no config file returns the documented default for every key.
C15_DefaultsIsolated ==
    /\ DEFAULT_CONFIG = DocumentedDefaults
    /\ GivesDefaults(NewInstance(DEFAULT_CONFIG, NoFile).config, DEFAULT_CONFIG)

---------------------------------------------------------------------------
(* NoteFileHandler (specification SpecWatcher).                            *)

\* the suffix of the path, lowercased, is one of the watched extensions
IsWatched(p) ==
    \E x \in WatchedExtensions :
        /\ Len(p) > Len(x)
        /\ p[Len(p) - Len(x)] # "/"
        /\ Lower(Slice(p, Len(p) - Len(x) + 1, Len(p))) = x

\* any two invocations for one path are at least 2.0 seconds apart
SpacedCalls ==
    \A i, j \in 1..Len(calls) :
        i < j /\ calls[i].file_path = calls[j].file_path
            => calls[j].at - calls[i].at >= Debounce

\* the invocation for the event just given is the last of calls
Invoked(before, after, ev) ==
    after = Append(before, [file_path |-> ev.src_path, at |-> ev.at])

\* no invocation for the path was less than 2.0 seconds before the reading
WindowOver(before, ev) ==
    \A i \in 1..Len(before) :
        before[i].file_path = ev.src_path => ev.at - before[i].at >= Debounce

\* C16: any two invocations of the callback for one path are at least 2.0
\* seconds apart.  An event for a directory or for a file with another
\* extension invokes nothing and leaves last_processed alone.  An event for
\* a watched file invokes the callback when it is the first file event for
\* its path, and otherwise exactly when no invocation for the path was less
\* than 2.0 seconds before it (an event that was suppressed in between does
\* not count); when it is suppressed, last_processed stays as it was.
C16_Debounce ==
    /\ []SpacedCalls
    /\ [][ IF event'.is_directory \/ ~IsWatched(event'.src_path)
           THEN calls' = calls /\ last_processed' = last_processed
           ELSE /\ event'.src_path \notin delivered => Invoked(calls, calls', event')
                /\ IF WindowOver(calls, event')
                   THEN Invoked(calls, calls', event')
                   ELSE calls' = calls /\ last_processed' = last_processed ]_vars

\* a path was called back for twice, 2.0 seconds apart, and a later event
\* for it, inside the window of the second invocation, was suppressed and
\* left the reading of that invocation in last_processed
C16_SuppressedInsideWindow ==
    /\ Len(calls) >= 2
    /\ calls[Len(calls)].file_path = calls[1].file_path
    /\ calls[Len(calls)].at = calls[1].at + Debounce
    /\ event.src_path = calls[1].file_path
    /\ ~event.is_directory
    /\ event.at > calls[Len(calls)].at
    /\ last_processed[event.src_path] = calls[Len(calls)].at

---------------------------------------------------------------------------
(* The batch mode of parse_notes (specification SpecBatch).                *)

\* the entries a batch run is to find: note files by their extension,
\* straight under the directory unless the run is recursive
IsNotePath(p) ==
    /\ options.recursive \/ Len(p) = 2
    /\ \E x \in WatchedExtensions : EndsWith(p[Len(p)], x)

\* the attempts that returned a record
Succeeded(attempts) == SelectSeq(attempts, LAMBDA a : ~a.raised)

\* C17: the files found are the note files of the directory, each once, in
\* sorted path order; they are attempted one after another in that order,
\* whether or not an earlier one failed; results holds one record, tagged
\* with its source_file, for each attempted file that succeeded, in that
\* order, and none for a file that failed; a run that found files ends by
\* handing that list, after every file was attempted, to export or display.
C17_BatchContinues ==
    batch_pc # "start" =>
        /\ SetOf(files_to_process) = {p \in DOMAIN directory : IsNotePath(p)}
        /\ \A i, j \in 1..Len(files_to_process) :
               i < j => PathLess(files_to_process[i], files_to_process[j])
        /\ Len(attempted) <= Len(files_to_process)
        /\ \A i \in 1..Len(attempted) : attempted[i].file_path = files_to_process[i]
        /\ Len(results) = Len(Succeeded(attempted))
        /\ \A k \in 1..Len(results) :
               /\ ~DidRaise(results[k])
               /\ results[k].source_file = StrPath(Succeeded(attempted)[k].file_path)
        /\ handed.to # "nobody" =>
               /\ Len(attempted) = Len(files_to_process)
               /\ handed.results = results
               /\ handed.to = IF options.output THEN "export_batch_results"
                              ELSE "display_batch_summary"
        /\ batch_pc = "done" /\ files_to_process # <<>> => handed.to # "nobody"

\* a run over three files ended: the first (a blank file) and the last (a
\* directory named like a note) failed, and the one record handed to
\* export is that of the second
C17_FailuresAroundSuccess ==
    /\ batch_pc = "done"
    /\ handed.to = "export_batch_results"
    /\ Len(attempted) = 3
    /\ attempted[1].raised /\ ~attempted[2].raised /\ attempted[3].raised
    /\ directory[attempted[1].file_path].content = <<" ">>
    /\ directory[attempted[3].file_path].path.kind = "directory"
    /\ Len(handed.results) = 1
    /\ handed.results[1].source_file = <<"n", "/", "b", ".", "m", "d">>

===========================================================================
